---------------------------- MODULE Spec2Model ----------------------------
(***************************************************************************)
(* Model of the GitHub repository analytics dashboard: the DataProcessor   *)
(* aggregates of data_processor.py, the fetch of github_api.py and the     *)
(* reruns of main in app.py.                                               *)
(*                                                                         *)
(* Timestamps are whole seconds since 2024-01-01 00:00:00 (a Monday), all  *)
(* timezone-naive.  A DataFrame is the sequence of its rows, a row is a    *)
(* record of its cells; the frame built from an empty list has no rows and *)
(* no columns.  A float number of days is the exact fraction num/den.      *)
(***************************************************************************)
EXTENDS Integers, Sequences, FiniteSets, TLC

VARIABLES issues_data, prs_data, issues_df, prs_df,
          start_date, end_date, current_date, called, raised, out_columns,
          kpis, kpi_cards,
          throughput_df, throughput_period,
          cycle_time_df, cycle_time_period,
          timeline_df, leaderboard_df, labels_df, linkage_df, aging_df,
          analyzer, cache_key, github_token, repository_input,
          start_day, end_day, fetch_button, all_items, fetched, fetch_calls,
          outcome

\* The session state apart from its two lists, what the last rerun of main
\* read (configuration, sidebar dates, button), what its fetch was given and
\* returned, and where it ended.
app == <<analyzer, cache_key, github_token, repository_input,
         start_day, end_day, fetch_button, all_items, fetched, fetch_calls,
         outcome>>

vars == <<issues_data, prs_data, issues_df, prs_df,
          start_date, end_date, current_date, called, raised, out_columns,
          kpis, kpi_cards,
          throughput_df, throughput_period,
          cycle_time_df, cycle_time_period,
          timeline_df, leaderboard_df, labels_df, linkage_df, aging_df, app>>

-----------------------------------------------------------------------------
(* Bounds of the model.                                                    *)

\* Largest number of rows of the two tables together.
MaxRows == 3

\* Largest number of rows of the two tables together in the leaderboard runs.
MaxContribRows == 6

\* Last day on which a window of the period-selection runs may end.
MaxSpanDays == 100

-----------------------------------------------------------------------------
(* Time and calendar.                                                      *)

SecondsPerDay == 86400

\* pandas' missing timestamp (None in the raw record).
NaT == 0 - 1

\* datetime.combine(date, datetime.min.time())
DayStart(d) == d * SecondsPerDay

\* datetime.combine(date, datetime.max.time()), to the second
DayEnd(d) == d * SecondsPerDay + (SecondsPerDay - 1)

\* Timestamp.normalize() / .dt.date, as a day number
DayOf(t) == t \div SecondsPerDay

\* Lengths of the months of 2024.
MonthLen == <<31, 29, 31, 30, 31, 30, 31, 31, 30, 31, 30, 31>>

RECURSIVE DaysBefore(_)
\* Number of days of 2024 before the first day of month m.
DaysBefore(m) == IF m = 1 THEN 0 ELSE DaysBefore(m - 1) + MonthLen[m - 1]

\* Month (1..12) of day number d of 2024.
MonthOf(d) == CHOOSE m \in 1..12 : DaysBefore(m) <= d /\ d < DaysBefore(m) + MonthLen[m]

\* strftime('%Y-%m-%d') of a day number: the text "YYYY-MM-DD" as its fields.
Ymd(d) == <<2024, MonthOf(d), d - DaysBefore(MonthOf(d)) + 1>>

-----------------------------------------------------------------------------
(* Exact fractions for float days.                                         *)

RECURSIVE Gcd(_, _)
Gcd(a, b) == IF b = 0 THEN a ELSE Gcd(b, a % b)

\* The number n/d (n >= 0, d > 0) in lowest terms.
Frac(n, d) == [num |-> n \div Gcd(n, d), den |-> d \div Gcd(n, d)]

\* The int 0 and the float 0.0 compare equal in Python.
Zero == [num |-> 0, den |-> 1]

RECURSIVE SumSeq(_)
SumSeq(s) == IF s = <<>> THEN 0 ELSE Head(s) + SumSeq(Tail(s))

-----------------------------------------------------------------------------
(* Raw records (github_api.py) and the tables made of them.                *)

\* A text cell holds a str (the sequence of its characters), None, or the
\* float NaN that pandas puts where a dictionary has no such key.
Str(text) == [kind |-> "str", text |-> text]
None == [kind |-> "None", text |-> <<>>]
NaN == [kind |-> "NaN", text |-> <<>>]

\* get_issue_data: the dictionary of one issue.
IssueData(number, title, state, created_at, closed_at, user, labels) ==
    [number |-> number, title |-> title, state |-> state,
     created_at |-> created_at, closed_at |-> closed_at, user |-> user,
     labels |-> labels, comments |-> 0, is_pr |-> FALSE]

\* get_pr_data: the dictionary of one pull request; body is pr.body or ''.
PrData(number, title, state, created_at, closed_at, merged_at, merged, user, labels, body) ==
    [number |-> number, title |-> title, state |-> state,
     created_at |-> created_at, closed_at |-> closed_at,
     merged_at |-> merged_at, user |-> user, labels |-> labels,
     comments |-> 0, review_comments |-> 0, body |-> Str(body),
     is_pr |-> TRUE, merged |-> merged]

\* The cell pandas puts in a column for a dictionary without that key: NaT in
\* a column of timestamps, NaN elsewhere.
Missing(col) ==
    IF col \in {"created_at", "closed_at", "merged_at"} THEN NaT
    ELSE IF col = "body" THEN NaN
    ELSE "NaN"

\* pd.DataFrame(list of dictionaries): the columns are the keys met in any
\* item, an item without a key gets the missing marker in that column.
DataFrame(data) ==
    LET columns == UNION {DOMAIN data[i] : i \in 1..Len(data)}
    IN  [i \in 1..Len(data) |->
            [col \in columns |->
                IF col \in DOMAIN data[i] THEN data[i][col] ELSE Missing(col)]]

create_dataframes(issues, prs) == <<DataFrame(issues), DataFrame(prs)>>

\* df.empty
Empty(df) == df = <<>>

\* df.columns: the frame of an empty list has none.
Columns(df) == IF df = <<>> THEN {} ELSE DOMAIN df[1]

\* df[df[col] == value]
RowsWhere(df, col, value) == SelectSeq(df, LAMBDA r : r[col] = value)

\* All sequences over S of length at most n.
SeqUpTo(S, n) == UNION {[1..k -> S] : k \in 0..n}

-----------------------------------------------------------------------------
(* calculate_kpis                                                          *)

\* (to_datetime(df[endcol]) - to_datetime(df['created_at'])).dt.total_seconds():
\* one cell per row, NaN where the end timestamp is missing.
TotalSeconds(df, endcol) ==
    [i \in 1..Len(df) |->
        IF df[i][endcol] = NaT
        THEN [na |-> TRUE, v |-> 0]
        ELSE [na |-> FALSE, v |-> df[i][endcol] - df[i].created_at]]

\* series.notna().any() of a timestamp column
AnyNotNa(df, col) == \E i \in 1..Len(df) : df[i][col] # NaT

\* A mean that counts the missing cells in its denominator.
MeanDaysCountingNa(s) ==
    Frac(SumSeq([i \in 1..Len(s) |-> s[i].v]), Len(s) * SecondsPerDay)

\* (series / 86400).mean(): pandas skips the NaN cells.
MeanDays(s) ==
    LET vals == SelectSeq(s, LAMBDA x : ~x.na)
    IN  Frac(SumSeq([i \in 1..Len(vals) |-> vals[i].v]), Len(vals) * SecondsPerDay)

\* A closed count taken from the closing timestamp instead of the state.
CountClosedByTimestamp(df) == Len(SelectSeq(df, LAMBDA r : r.closed_at # NaT))

\* len(issues_df[issues_df['state'] == 'closed'])
CountClosed(df) == Len(RowsWhere(df, "state", "closed"))

calculate_kpis(idf, pdf) ==
    LET closed_issues == RowsWhere(idf, "state", "closed")
        merged_prs    == RowsWhere(pdf, "merged", TRUE)
    IN  [total_issues  |-> IF ~Empty(idf) THEN Len(idf) ELSE 0,
         total_prs     |-> IF ~Empty(pdf) THEN Len(pdf) ELSE 0,
         open_issues   |-> IF ~Empty(idf) THEN Len(RowsWhere(idf, "state", "open")) ELSE 0,
         open_prs      |-> IF ~Empty(pdf) THEN Len(RowsWhere(pdf, "state", "open")) ELSE 0,
         closed_issues |-> IF ~Empty(idf) THEN CountClosed(idf) ELSE 0,
         merged_prs    |-> IF ~Empty(pdf) /\ "merged" \in Columns(pdf)
                           THEN Len(merged_prs) ELSE 0,
         avg_issue_resolution_days |->
            IF ~Empty(idf) /\ {"created_at", "closed_at"} \subseteq Columns(idf)
            THEN IF ~Empty(closed_issues) /\ AnyNotNa(closed_issues, "closed_at")
                 THEN MeanDays(TotalSeconds(closed_issues, "closed_at"))
                 ELSE Zero
            ELSE Zero,
         avg_pr_merge_days |->
            IF ~Empty(pdf) /\ {"created_at", "merged_at", "merged"} \subseteq Columns(pdf)
            THEN IF ~Empty(merged_prs) /\ AnyNotNa(merged_prs, "merged_at")
                 THEN MeanDays(TotalSeconds(merged_prs, "merged_at"))
                 ELSE Zero
            ELSE Zero]

-----------------------------------------------------------------------------
(* The two average cards of the dashboard (app.py).                        *)

\* round(n/d) to the nearest integer, ties to even.
RoundHalfEven(n, d) ==
    LET q == n \div d
        r == n % d
    IN  IF 2 * r < d THEN q
        ELSE IF 2 * r > d THEN q + 1
        ELSE IF q % 2 = 0 THEN q ELSE q + 1

\* f"{x:.1f}d": the number of tenths shown before the "d" (the float is
\* rounded on its exact value, ties to even).
FormatDays(x) == [text |-> "d", tenths |-> RoundHalfEven(10 * x.num, x.den)]

NotApplicable == [text |-> "N/A", tenths |-> 0]

\* f"{avg:.1f}d" if avg > 0 else "N/A"
AvgCard(avg) == IF avg.num > 0 THEN FormatDays(avg) ELSE NotApplicable

-----------------------------------------------------------------------------
(* Period selection and pandas' time bins.                                 *)

\* (end_date - start_date).days
DaysRange(start, end) == (end - start) \div SecondsPerDay

\* create_throughput_data: the grouping period of the window.
ThroughputPeriod(start, end) ==
    LET days_range == DaysRange(start, end)
    IN  IF days_range <= 7 THEN "D"
        ELSE IF days_range <= 30 THEN "W"
        ELSE IF days_range <= 90 THEN "W"
        ELSE "M"

\* A period selection that goes weekly one day early.
CyclePeriodStrict(start, end) ==
    LET days_range == DaysRange(start, end)
    IN  IF days_range < 7 THEN "D"
        ELSE IF days_range <= 30 THEN "W"
        ELSE IF days_range <= 90 THEN "W"
        ELSE "M"

\* create_cycle_time_data: the grouping period of the window.
CyclePeriod(start, end) ==
    LET days_range == DaysRange(start, end)
    IN  IF days_range <= 7 THEN "D"
        ELSE IF days_range <= 30 THEN "W"
        ELSE IF days_range <= 90 THEN "W"
        ELSE "M"

\* Weekday of a day number, Monday = 0 (2024-01-01 is a Monday).
Weekday(d) == d % 7

\* Last day of month m of 2024 (m = 0: 2023-12-31).
MonthEnd(m) == DaysBefore(m + 1) - 1

\* The smallest and the largest element of a non-empty sequence of timestamps.
MinOf(values) == CHOOSE v \in {values[i] : i \in 1..Len(values)} :
                    \A i \in 1..Len(values) : v <= values[i]
MaxOf(values) == CHOOSE v \in {values[i] : i \in 1..Len(values)} :
                    \A i \in 1..Len(values) : v >= values[i]

\* pd.Grouper(freq): the bin labels date_range(first, last, freq) between the
\* range edges of the values, as day numbers.  'D' anchors at the start of the
\* first day and ends one day after the last; 'W' (weeks ending on Sunday) and
\* 'M' (month ends) go from first.normalize() - freq to last.normalize() + freq.
Binner(period, values) ==
    LET lo == DayOf(MinOf(values))
        hi == DayOf(MaxOf(values))
    IN  IF period = "D" THEN [i \in 1..(hi - lo + 2) |-> lo + i - 1]
        ELSE IF period = "W" THEN
            LET first == IF Weekday(lo) = 6 THEN lo - 7 ELSE lo - (Weekday(lo) + 1)
                last  == IF Weekday(hi) = 6 THEN hi + 7 ELSE hi + (6 - Weekday(hi))
            IN  [i \in 1..((last - first) \div 7 + 1) |-> first + 7 * (i - 1)]
        ELSE
            LET mfirst == MonthOf(lo) - 1
                mlast  == IF hi = MonthEnd(MonthOf(hi)) THEN MonthOf(hi) + 1
                          ELSE MonthOf(hi)
            IN  [i \in 1..(mlast - mfirst + 1) |-> MonthEnd(mfirst + i - 1)]

\* _adjust_bin_edges: week and month edges move to the last nanosecond of
\* their day (a timestamp is at or before the edge iff its day is), and the
\* last edge goes when the one before it is already past every value.
AdjustedBinner(period, values) ==
    LET b == Binner(period, values)
    IN  IF period = "D" THEN b
        ELSE IF b[Len(b) - 1] >= DayOf(MaxOf(values)) THEN SubSeq(b, 1, Len(b) - 1)
        ELSE b

\* groupby(pd.Grouper(key, freq=period)).size(): one entry per bin from the
\* first to the last value, empty bins included, labelled on the left for 'D'
\* (bins closed on the left) and on the right for 'W' and 'M' (closed right).
GrouperSize(period, values) ==
    IF Len(values) = 0 THEN <<>>
    ELSE
        LET b == AdjustedBinner(period, values)
            In(i, v) == IF period = "D"
                        THEN DayStart(b[i]) <= v /\ v < DayStart(b[i + 1])
                        ELSE b[i] < DayOf(v) /\ DayOf(v) <= b[i + 1]
        IN  [i \in 1..(Len(b) - 1) |->
                [label |-> IF period = "D" THEN b[i] ELSE b[i + 1],
                 size  |-> Cardinality({j \in 1..Len(values) : In(i, values[j])})]]

-----------------------------------------------------------------------------
(* create_throughput_data                                                  *)

\* a < b for two texts "YYYY-MM-DD" held as their fields.
YmdLess(a, b) ==
    \/ a[1] < b[1]
    \/ a[1] = b[1] /\ a[2] < b[2]
    \/ a[1] = b[1] /\ a[2] = b[2] /\ a[3] < b[3]

RECURSIVE InsertByPeriod(_, _)
InsertByPeriod(sorted, row) ==
    IF sorted = <<>> THEN <<row>>
    ELSE IF YmdLess(row.Period, Head(sorted).Period) THEN <<row>> \o sorted
    ELSE <<Head(sorted)>> \o InsertByPeriod(Tail(sorted), row)

RECURSIVE SortByPeriod(_)
\* df.sort_values('Period')
SortByPeriod(rows) ==
    IF rows = <<>> THEN <<>>
    ELSE InsertByPeriod(SortByPeriod(SubSeq(rows, 1, Len(rows) - 1)), rows[Len(rows)])

\* A window test that leaves the end of the window out.
InWindowEndExclusive(t, start, end) == t # NaT /\ t >= start /\ t < end

\* (col >= start_date) & (col <= end_date): a comparison with NaT is false.
InWindow(t, start, end) == t # NaT /\ t >= start /\ t <= end

\* The column col of the rows of df that lie in the window.
WindowValues(df, col, start, end) ==
    LET kept == SelectSeq(df, LAMBDA r : InWindow(r[col], start, end))
    IN  [i \in 1..Len(kept) |-> kept[i][col]]

\* The rows appended for the closed issues.
ClosedRows(counts) ==
    [i \in 1..Len(counts) |->
        [Period |-> Ymd(counts[i].label), Closed_Issues |-> counts[i].size,
         Merged_PRs |-> 0]]

\* One merged count, appended without a look at the rows already there.
PutMergedAsNewRow(rows, period_str, count) ==
    Append(rows, [Period |-> period_str, Closed_Issues |-> 0, Merged_PRs |-> count])

\* One merged count: set on the first row of its period, else a new row.
PutMerged(rows, period_str, count) ==
    IF \E i \in 1..Len(rows) : rows[i].Period = period_str
    THEN LET k == CHOOSE i \in 1..Len(rows) :
                      /\ rows[i].Period = period_str
                      /\ \A j \in 1..(i - 1) : rows[j].Period # period_str
         IN  [rows EXCEPT ![k].Merged_PRs = count]
    ELSE Append(rows, [Period |-> period_str, Closed_Issues |-> 0,
                       Merged_PRs |-> count])

RECURSIVE PutAllMerged(_, _)
PutAllMerged(rows, counts) ==
    IF counts = <<>> THEN rows
    ELSE PutAllMerged(PutMerged(rows, Ymd(Head(counts).label), Head(counts).size),
                      Tail(counts))

create_throughput_data(idf, pdf, start, end) ==
    LET period == ThroughputPeriod(start, end)
        closed_issues == RowsWhere(idf, "state", "closed")
        merged_prs == RowsWhere(pdf, "merged", TRUE)
        closed_counts ==
            IF ~Empty(idf) /\ "closed_at" \in Columns(idf) /\ ~Empty(closed_issues)
            THEN GrouperSize(period, WindowValues(closed_issues, "closed_at", start, end))
            ELSE <<>>
        merged_counts ==
            IF ~Empty(pdf) /\ {"merged_at", "merged"} \subseteq Columns(pdf)
               /\ ~Empty(merged_prs)
            THEN GrouperSize(period, WindowValues(merged_prs, "merged_at", start, end))
            ELSE <<>>
    IN  SortByPeriod(PutAllMerged(ClosedRows(closed_counts), merged_counts))

-----------------------------------------------------------------------------
(* create_cycle_time_data                                                  *)

\* dt.to_period(period) of a timestamp, as the last day of the period for
\* 'D' and 'W' (weeks run Monday to Sunday) and as the month for 'M'.
ToPeriod(period, t) ==
    IF period = "D" THEN DayOf(t)
    ELSE IF period = "W" THEN DayOf(t) + (6 - Weekday(DayOf(t)))
    ELSE MonthOf(DayOf(t))

\* astype(str) of a period: "YYYY-MM-DD", "YYYY-MM-DD/YYYY-MM-DD" (the Monday
\* and the Sunday of the week) or "YYYY-MM", as the fields of the text.
PeriodStr(period, p) ==
    IF period = "D" THEN Ymd(p)
    ELSE IF period = "W" THEN Ymd(p - 6) \o Ymd(p)
    ELSE <<2024, p>>

\* The keys of a groupby, in ascending order.
RECURSIVE SortedKeys(_)
SortedKeys(S) ==
    IF S = {} THEN <<>>
    ELSE LET m == CHOOSE x \in S : \A y \in S : x <= y
         IN  <<m>> \o SortedKeys(S \ {m})

\* A window test on the merge time alone.
CycleKeptByMergeTime(r, start, end) ==
    r.merged_at # NaT /\ r.merged_at >= start /\ r.merged_at <= end

\* (created_at >= start_date) & (merged_at <= end_date)
CycleKept(r, start, end) ==
    r.created_at >= start /\ r.merged_at # NaT /\ r.merged_at <= end

\* The merged pull requests the cycle time is taken over.
CycleRows(pdf, start, end) ==
    SelectSeq(RowsWhere(pdf, "merged", TRUE), LAMBDA r : CycleKept(r, start, end))

\* The early returns of create_cycle_time_data.
CycleEarlyReturn(pdf, start, end) ==
    \/ Empty(pdf)
    \/ ~({"created_at", "merged_at", "merged"} \subseteq Columns(pdf))
    \/ Empty(RowsWhere(pdf, "merged", TRUE))
    \/ Empty(CycleRows(pdf, start, end))

create_cycle_time_data(pdf, start, end) ==
    IF CycleEarlyReturn(pdf, start, end) THEN <<>>
    ELSE
        LET merged_prs == CycleRows(pdf, start, end)
            period == CyclePeriod(start, end)
            keys == SortedKeys({ToPeriod(period, merged_prs[i].merged_at) :
                                    i \in 1..Len(merged_prs)})
            Group(k) == SelectSeq(merged_prs,
                                  LAMBDA r : ToPeriod(period, r.merged_at) = k)
        IN  [i \in 1..Len(keys) |->
                [Period |-> PeriodStr(period, keys[i]),
                 Avg_Cycle_Time_Days |->
                    MeanDays(TotalSeconds(Group(keys[i]), "merged_at"))]]

-----------------------------------------------------------------------------
(* create_timeline_data                                                    *)

\* df.groupby('date').size() with date = to_datetime(created_at).dt.date:
\* the dates that occur, ascending, each with its number of rows.
CreatedPerDate(df) ==
    LET dates == SortedKeys({DayOf(df[i].created_at) : i \in 1..Len(df)})
    IN  [k \in 1..Len(dates) |->
            [date |-> dates[k],
             size |-> Cardinality({i \in 1..Len(df) :
                                     DayOf(df[i].created_at) = dates[k]})]]

\* The rows appended for the issues.
IssueDateRows(counts) ==
    [k \in 1..Len(counts) |->
        [Date |-> counts[k].date, Issues |-> counts[k].size, PRs |-> 0]]

\* A PR count that always makes a row of its own.
PutPrCountAsNewRow(rows, date, count) ==
    Append(rows, [Date |-> date, Issues |-> 0, PRs |-> count])

\* One PR count: set on the first row of its date, else a new row.
PutPrCount(rows, date, count) ==
    IF \E i \in 1..Len(rows) : rows[i].Date = date
    THEN LET k == CHOOSE i \in 1..Len(rows) :
                      /\ rows[i].Date = date
                      /\ \A j \in 1..(i - 1) : rows[j].Date # date
         IN  [rows EXCEPT ![k].PRs = count]
    ELSE Append(rows, [Date |-> date, Issues |-> 0, PRs |-> count])

RECURSIVE PutAllPrCounts(_, _)
PutAllPrCounts(rows, counts) ==
    IF counts = <<>> THEN rows
    ELSE PutAllPrCounts(PutPrCount(rows, Head(counts).date, Head(counts).size),
                        Tail(counts))

RECURSIVE InsertAscBy(_, _, _)
InsertAscBy(sorted, row, field) ==
    IF sorted = <<>> THEN <<row>>
    ELSE IF row[field] < Head(sorted)[field] THEN <<row>> \o sorted
    ELSE <<Head(sorted)>> \o InsertAscBy(Tail(sorted), row, field)

RECURSIVE SortAscBy(_, _)
\* df.sort_values(field)
SortAscBy(rows, field) ==
    IF rows = <<>> THEN <<>>
    ELSE InsertAscBy(SortAscBy(SubSeq(rows, 1, Len(rows) - 1), field),
                     rows[Len(rows)], field)

create_timeline_data(idf, pdf) ==
    LET issue_counts == IF ~Empty(idf) /\ "created_at" \in Columns(idf)
                        THEN CreatedPerDate(idf) ELSE <<>>
        pr_counts    == IF ~Empty(pdf) /\ "created_at" \in Columns(pdf)
                        THEN CreatedPerDate(pdf) ELSE <<>>
        timeline_data == PutAllPrCounts(IssueDateRows(issue_counts), pr_counts)
        sorted == SortAscBy(timeline_data, "Date")
    IN  [k \in 1..Len(sorted) |->
            [Date |-> sorted[k].Date, Issues |-> sorted[k].Issues,
             PRs |-> sorted[k].PRs, Total |-> sorted[k].Issues + sorted[k].PRs]]

-----------------------------------------------------------------------------
(* value_counts and the descending sort                                    *)

RECURSIVE FirstSeen(_)
\* The distinct elements of a sequence in the order of their first occurrence.
FirstSeen(s) ==
    IF s = <<>> THEN <<>>
    ELSE LET init == FirstSeen(SubSeq(s, 1, Len(s) - 1))
             last == s[Len(s)]
         IN  IF \E i \in 1..Len(init) : init[i] = last THEN init
             ELSE Append(init, last)

RECURSIVE InsertDescBy(_, _, _)
InsertDescBy(sorted, row, field) ==
    IF sorted = <<>> THEN <<row>>
    ELSE IF row[field] > Head(sorted)[field] THEN <<row>> \o sorted
    ELSE <<Head(sorted)>> \o InsertDescBy(Tail(sorted), row, field)

\* A sort that leaves the rows as they are.
LeftUnsorted(rows, field) == rows

RECURSIVE SortDescBy(_, _)
\* df.sort_values(field, ascending=False); equal keys keep their order.
SortDescBy(rows, field) ==
    IF rows = <<>> THEN <<>>
    ELSE InsertDescBy(SortDescBy(SubSeq(rows, 1, Len(rows) - 1), field),
                      rows[Len(rows)], field)

\* series.value_counts(): one entry per distinct value, most frequent first;
\* dropna is True by default, the cells that hold the missing marker are not
\* counted.
ValueCounts(s) ==
    LET kept == SelectSeq(s, LAMBDA v : v # "NaN")
        seen == FirstSeen(kept)
    IN  SortDescBy([k \in 1..Len(seen) |->
                        [value |-> seen[k],
                         count |-> Cardinality({i \in 1..Len(kept) : kept[i] = seen[k]})]],
                   "count")

\* The column col of a table, as a sequence.
Column(df, col) == [i \in 1..Len(df) |-> df[i][col]]

-----------------------------------------------------------------------------
(* create_contributor_leaderboard                                          *)

\* contributor_data[user][field] = count, after the entry of a new user.
PutUserCount(data, user, field, count) ==
    LET d == IF \E i \in 1..Len(data) : data[i].Contributor = user THEN data
             ELSE Append(data, [Contributor |-> user, Issues |-> 0, PRs |-> 0])
        k == CHOOSE i \in 1..Len(d) : d[i].Contributor = user
    IN  [d EXCEPT ![k][field] = count]

RECURSIVE PutAllUserCounts(_, _, _)
PutAllUserCounts(data, counts, field) ==
    IF counts = <<>> THEN data
    ELSE PutAllUserCounts(PutUserCount(data, Head(counts).value, field,
                                       Head(counts).count),
                          Tail(counts), field)

create_contributor_leaderboard(idf, pdf) ==
    LET issue_counts == IF ~Empty(idf) /\ "user" \in Columns(idf)
                        THEN ValueCounts(Column(idf, "user")) ELSE <<>>
        pr_counts    == IF ~Empty(pdf) /\ "user" \in Columns(pdf)
                        THEN ValueCounts(Column(pdf, "user")) ELSE <<>>
        contributor_data ==
            PutAllUserCounts(PutAllUserCounts(<<>>, issue_counts, "Issues"),
                             pr_counts, "PRs")
        leaderboard == [k \in 1..Len(contributor_data) |->
            [Contributor |-> contributor_data[k].Contributor,
             Issues |-> contributor_data[k].Issues,
             PRs |-> contributor_data[k].PRs,
             Total |-> contributor_data[k].Issues + contributor_data[k].PRs]]
    IN  SortDescBy(leaderboard, "Total")

-----------------------------------------------------------------------------
(* extract_labels_frequency                                                *)

RECURSIVE Flatten(_)
\* all_labels.extend(labels) for every row, in order.
Flatten(lists) ==
    IF lists = <<>> THEN <<>> ELSE Head(lists) \o Flatten(Tail(lists))

extract_labels_frequency(idf, pdf) ==
    LET issue_labels == IF ~Empty(idf) /\ "labels" \in Columns(idf)
                        THEN Flatten(Column(idf, "labels")) ELSE <<>>
        pr_labels    == IF ~Empty(pdf) /\ "labels" \in Columns(pdf)
                        THEN Flatten(Column(pdf, "labels")) ELSE <<>>
        label_counts == ValueCounts(issue_labels \o pr_labels)
    IN  SortDescBy([k \in 1..Len(label_counts) |->
                        [Label |-> label_counts[k].value,
                         Count |-> label_counts[k].count]],
                   "Count")

-----------------------------------------------------------------------------
(* Exceptions                                                              *)

\* df[col] raises KeyError on a frame without that column.
KeyError(df, col) == col \notin Columns(df)

\* The columns of a returned frame: those named for an empty frame, the keys
\* of its rows otherwise.
FrameColumns(rows, named) == IF rows = <<>> THEN named ELSE DOMAIN rows[1]

-----------------------------------------------------------------------------
(* extract_pr_issue_linkage.  The patterns are matched as re.findall       *)
(* matches them, character by character.                                   *)

DigitChars == <<"0", "1", "2", "3", "4", "5", "6", "7", "8", "9">>

\* \d and \s
Digit == {DigitChars[i] : i \in DOMAIN DigitChars}
Space == {" ", "\n", "\t"}

UpperCase == <<"A", "B", "C", "D", "E", "F", "G", "H", "I", "J", "K", "L", "M",
               "N", "O", "P", "Q", "R", "S", "T", "U", "V", "W", "X", "Y", "Z">>
LowerCase == <<"a", "b", "c", "d", "e", "f", "g", "h", "i", "j", "k", "l", "m",
               "n", "o", "p", "q", "r", "s", "t", "u", "v", "w", "x", "y", "z">>

\* re.IGNORECASE: the characters are compared in lower case.
Lower(c) ==
    IF \E i \in DOMAIN UpperCase : UpperCase[i] = c
    THEN LowerCase[CHOOSE i \in DOMAIN UpperCase : UpperCase[i] = c]
    ELSE c

\* The atoms of a pattern: a character, a character with ?, \s+ and (\d+).
Lit(c) == [atom |-> "char", c |-> c]
Opt(c) == [atom |-> "char?", c |-> c]
Spaces == [atom |-> "\\s+", c |-> ""]
Number == [atom |-> "(\\d+)", c |-> ""]
Word(w) == [i \in DOMAIN w |-> Lit(w[i])]

patterns ==
    << <<Lit("#"), Number>>,
       Word(<<"c", "l", "o", "s", "e">>) \o <<Opt("s"), Spaces, Lit("#"), Number>>,
       Word(<<"f", "i", "x", "e">>) \o <<Opt("s"), Spaces, Lit("#"), Number>>,
       Word(<<"r", "e", "s", "o", "l", "v", "e">>)
           \o <<Opt("s"), Spaces, Lit("#"), Number>>,
       Word(<<"r", "e", "l", "a", "t", "e", "d">>) \o <<Spaces>>
           \o Word(<<"t", "o">>) \o <<Spaces, Lit("#"), Number>> >>

NoMatch == <<0, <<>>>>

RECURSIVE RunEnd(_, _, _)
\* The first position from i on whose character is not of the class.
RunEnd(s, i, class) ==
    IF i <= Len(s) /\ s[i] \in class THEN RunEnd(s, i + 1, class) ELSE i

RECURSIVE MatchFrom(_, _, _, _, _)
RECURSIVE LongestFirst(_, _, _, _, _, _)
\* The match of the atoms k.. of pat at position i of s: the position after
\* it and its group, or NoMatch.
MatchFrom(s, i, pat, k, group) ==
    IF k > Len(pat) THEN <<i, group>>
    ELSE LET a == pat[k]
             here == i <= Len(s) /\ Lower(s[i]) = a.c
         IN  IF a.atom = "char"
             THEN IF here THEN MatchFrom(s, i + 1, pat, k + 1, group) ELSE NoMatch
             ELSE IF a.atom = "char?"
             THEN LET taken == IF here THEN MatchFrom(s, i + 1, pat, k + 1, group)
                               ELSE NoMatch
                  IN  IF taken # NoMatch THEN taken
                      ELSE MatchFrom(s, i, pat, k + 1, group)
             ELSE IF a.atom = "\\s+"
             THEN LongestFirst(s, i, RunEnd(s, i, Space), pat, k, group)
             ELSE LongestFirst(s, i, RunEnd(s, i, Digit), pat, k, group)

\* A greedy + : the longest run first, then shorter ones, at least one
\* character.
LongestFirst(s, i, n, pat, k, group) ==
    IF n <= i THEN NoMatch
    ELSE LET rest == MatchFrom(s, n, pat, k + 1,
                               IF pat[k] = Number THEN SubSeq(s, i, n - 1) ELSE group)
         IN  IF rest # NoMatch THEN rest
             ELSE LongestFirst(s, i, n - 1, pat, k, group)

RECURSIVE FindFrom(_, _, _)
FindFrom(pattern, s, i) ==
    IF i > Len(s) THEN <<>>
    ELSE LET m == MatchFrom(s, i, pattern, 1, <<>>)
         IN  IF m # NoMatch THEN <<m[2]>> \o FindFrom(pattern, s, m[1])
             ELSE FindFrom(pattern, s, i + 1)

\* re.findall(pattern, s, re.IGNORECASE): the groups of the matches, left to
\* right, none overlapping.
findall(pattern, s) == FindFrom(pattern, s, 1)

RECURSIVE int(_)
\* int(numeral)
int(numeral) ==
    IF numeral = <<>> THEN 0
    ELSE int(SubSeq(numeral, 1, Len(numeral) - 1)) * Len(DigitChars)
         + (CHOOSE i \in DOMAIN DigitChars :
                DigitChars[i] = numeral[Len(numeral)]) - 1

\* `if body:` a non-empty str is true, None is false, NaN is true.
Truthy(body) == body.kind = "NaN" \/ (body.kind = "str" /\ body.text # <<>>)

\* The set of the groups of all patterns: numerals, as texts.
LinkedIssues(body) ==
    IF Truthy(body)
    THEN UNION {{findall(patterns[p], body.text)[j] :
                    j \in DOMAIN findall(patterns[p], body.text)} :
                p \in DOMAIN patterns}
    ELSE {}

\* sorted(linked_issues, key=int): the order in which a set yields numerals
\* of the same value is not fixed, any of them can come first.
SortedByInt(S) ==
    {q \in [1..Cardinality(S) -> S] :
        /\ \A i, j \in DOMAIN q : i # j => q[i] # q[j]
        /\ \A i, j \in DOMAIN q : i < j => int(q[i]) <= int(q[j])}

RECURSIVE Join(_, _)
\* sep.join(texts)
Join(texts, sep) ==
    IF texts = <<>> THEN <<>>
    ELSE IF Len(texts) = 1 THEN texts[1]
    ELSE texts[1] \o sep \o Join(Tail(texts), sep)

\* The separator of a join that puts a comma alone.
CommaAlone == <<",">>

\* ', '
CommaSpace == <<",", " ">>

\* pr.get(col, default)
Get(pr, col, default) == IF col \in DOMAIN pr THEN pr[col] ELSE default

\* A row for every pull request, linked or not.
LinkageRowsUnguarded(pr) ==
    {<<("PR Number" :> Get(pr, "number", "N/A"))
        @@ ("PR Title" :> Get(pr, "title", "N/A"))
        @@ ("Linked Issues" :> Join(q, CommaSpace))>> :
        q \in SortedByInt(LinkedIssues(pr.body))}

\* The rows appended for one pull request: one if its set is not empty.
LinkageRows(pr) ==
    IF LinkedIssues(pr.body) # {}
    THEN {<<("PR Number" :> Get(pr, "number", "N/A"))
             @@ ("PR Title" :> Get(pr, "title", "N/A"))
             @@ ("Linked Issues" :> Join(q, CommaSpace))>> :
             q \in SortedByInt(LinkedIssues(pr.body))}
    ELSE {<<>>}

RECURSIVE Linkages(_)
Linkages(pdf) ==
    IF pdf = <<>> THEN {<<>>}
    ELSE {front \o last : front \in Linkages(SubSeq(pdf, 1, Len(pdf) - 1)),
                          last \in LinkageRows(pdf[Len(pdf)])}

\* re.findall raises TypeError on a body that is not a str.
LinkageRaises(pdf) ==
    /\ ~(Empty(pdf) \/ "body" \notin Columns(pdf))
    /\ \E i \in DOMAIN pdf : Truthy(pdf[i].body) /\ pdf[i].body.kind # "str"

\* The frames the call can return.
extract_pr_issue_linkage(pdf) ==
    IF Empty(pdf) \/ "body" \notin Columns(pdf) THEN {<<>>}
    ELSE Linkages(pdf)

-----------------------------------------------------------------------------
(* create_issue_aging_data                                                 *)

\* A bucket test that leaves its upper bound out.
AgeBelow(seconds, days) == seconds < days * SecondsPerDay

\* age_days <= days, where age_days is seconds / 86400.
AgeWithin(seconds, days) == seconds <= days * SecondsPerDay

get_age_bucket(seconds) ==
    IF AgeWithin(seconds, 7) THEN "0-7 days"
    ELSE IF AgeWithin(seconds, 30) THEN "7-30 days"
    ELSE "30+ days"

all_buckets == <<"0-7 days", "7-30 days", "30+ days">>

bucket_order(bucket) == (CHOOSE i \in DOMAIN all_buckets : all_buckets[i] = bucket) - 1

RECURSIVE WithAllBuckets(_, _)
\* A row of Count 0 is appended for each bucket not met.
WithAllBuckets(bucket_counts, buckets) ==
    IF buckets = <<>> THEN bucket_counts
    ELSE WithAllBuckets(
            IF \E k \in DOMAIN bucket_counts :
                  bucket_counts[k].Age_Bucket = Head(buckets)
            THEN bucket_counts
            ELSE Append(bucket_counts, [Age_Bucket |-> Head(buckets), Count |-> 0]),
            Tail(buckets))

\* issues_df['state'] is read once the frame has rows and a created_at.
AgingRaises(idf) ==
    ~Empty(idf) /\ "created_at" \in Columns(idf) /\ KeyError(idf, "state")

create_issue_aging_data(idf, current) ==
    IF Empty(idf) \/ "created_at" \notin Columns(idf) THEN <<>>
    ELSE LET open_issues == RowsWhere(idf, "state", "open")
         IN  IF Empty(open_issues) THEN <<>>
             ELSE
                LET counts == ValueCounts(
                        [i \in DOMAIN open_issues |->
                            get_age_bucket(current - open_issues[i].created_at)])
                    bucket_counts == WithAllBuckets(
                        [k \in DOMAIN counts |->
                            [Age_Bucket |-> counts[k].value, Count |-> counts[k].count]],
                        all_buckets)
                    ordered == SortAscBy(
                        [k \in DOMAIN bucket_counts |->
                            [Age_Bucket |-> bucket_counts[k].Age_Bucket,
                             Count |-> bucket_counts[k].Count,
                             order |-> bucket_order(bucket_counts[k].Age_Bucket)]],
                        "order")
                IN  [k \in DOMAIN ordered |->
                        [Age_Bucket |-> ordered[k].Age_Bucket,
                         Count |-> ordered[k].Count]]

-----------------------------------------------------------------------------
(* Input tables.  A shape is the part of a record that varies; the number  *)
(* of a record is its rank in the shared sequence of the repository.       *)

\* The issue table of a sequence of shapes.
IssueTable(shapes) ==
    [i \in 1..Len(shapes) |->
        IssueData(i, "Issue", shapes[i].state, shapes[i].created_at, shapes[i].closed_at,
                  shapes[i].user, shapes[i].labels)]

\* The pull-request table of a sequence of shapes, numbered after the issues.
PrTable(shapes, base) ==
    [i \in 1..Len(shapes) |->
        PrData(base + i, "Pull request", shapes[i].state, shapes[i].created_at,
               IF shapes[i].state = "closed" /\ ~shapes[i].merged
               THEN shapes[i].created_at ELSE shapes[i].merged_at,
               shapes[i].merged_at, shapes[i].merged,
               shapes[i].user, shapes[i].labels, <<>>)]

IssueShape(state, created_at, closed_at, user, labels) ==
    [state |-> state, created_at |-> created_at, closed_at |-> closed_at,
     user |-> user, labels |-> labels]

PrShape(state, created_at, merged_at, merged, user, labels) ==
    [state |-> state, created_at |-> created_at, merged_at |-> merged_at,
     merged |-> merged, user |-> user, labels |-> labels]

\* All pairs of tables over the shape sets with at most n rows together.
TablePairsUpTo(IShapes, PShapes, n) ==
    {create_dataframes(IssueTable(x[1]), PrTable(x[2], Len(x[1]))) :
        x \in UNION {SeqUpTo(IShapes, k) \X [1..(n - k) -> PShapes] : k \in 0..n}}

TablePairs(IShapes, PShapes) == TablePairsUpTo(IShapes, PShapes, MaxRows)

\* The session as lines 126-132 leave it (no analyzer, no cache_key
\* attribute), and no rerun of main yet.
NoRerun ==
    /\ analyzer = None
    /\ cache_key = <<>>
    /\ github_token = ""
    /\ repository_input = <<>>
    /\ start_day = 0
    /\ end_day = 0
    /\ fetch_button = FALSE
    /\ all_items = <<>>
    /\ fetched = <<>>
    /\ fetch_calls = 0
    /\ outcome = ""

\* No step of the dashboard has run: nothing called, no result.
NoCalls ==
    /\ called = {}
    /\ raised = {}
    /\ out_columns = <<>>
    /\ linkage_df = <<>>
    /\ aging_df = <<>>
    /\ kpis = <<>>
    /\ kpi_cards = <<>>
    /\ throughput_df = <<>>
    /\ throughput_period = ""
    /\ cycle_time_df = <<>>
    /\ cycle_time_period = ""
    /\ timeline_df = <<>>
    /\ leaderboard_df = <<>>
    /\ labels_df = <<>>

\* No aggregate has been called, main has not run.
NoAggregate == NoRerun /\ NoCalls

\* The tables are those of complete records, and the clock reads the end of
\* the window.
NoOutputs ==
    /\ issues_data = issues_df
    /\ prs_data = prs_df
    /\ current_date = end_date
    /\ NoAggregate

inputs == <<issues_data, prs_data, issues_df, prs_df,
            start_date, end_date, current_date>>

-----------------------------------------------------------------------------
(* Actions: one per aggregate, each called once on the tables.  A call     *)
(* that raises leaves no result.                                           *)

\* The frame passed in, had the columns been added to it and not to a copy.
AfterNoCopy(df, working) == working

\* df.copy(): the columns are added to the copy, the frame passed in is as
\* it was.
AfterCopy(df, working) == df

\* The empty-collection guard left out of a column access.
KpisRaiseUnguarded(idf, pdf) == KeyError(idf, "state") \/ KeyError(pdf, "state")

\* issues_df['state'] and prs_df['state'] are read where the frame has rows.
KpisRaise(idf, pdf) ==
    \/ ~Empty(idf) /\ KeyError(idf, "state")
    \/ ~Empty(pdf) /\ KeyError(pdf, "state")

\* issues_df['state'] is read where the frame has rows and a closed_at.
ThroughputRaises(idf) ==
    ~Empty(idf) /\ "closed_at" \in Columns(idf) /\ KeyError(idf, "state")

\* pd.DataFrame(columns=[...]): the columns of the frame an aggregate returns
\* when it has no row.
EmptyFrameColumns(name) ==
    CASE name = "labels" -> {"Label", "Count"}
      [] name = "leaderboard" -> {"Contributor", "Issues", "PRs", "Total"}
      [] name = "linkage" -> {"PR Number", "PR Title", "Linked Issues"}
      [] name = "timeline" -> {"Date", "Issues", "PRs", "Total"}
      [] name = "throughput" -> {"Period", "Closed_Issues", "Merged_PRs"}
      [] name = "cycle_time" -> {"Period", "Avg_Cycle_Time_Days"}
      [] name = "aging" -> {"Age_Bucket", "Count"}

\* The working copy of create_timeline_data.
WithDate(df) ==
    [i \in DOMAIN df |-> df[i] @@ ("date" :> DayOf(df[i].created_at))]

\* app.py: the tables are made of the fetched lists; pd.DataFrame takes any
\* list of dictionaries.
CreateDataframes ==
    /\ UNCHANGED app
    /\ "dataframes" \notin called
    /\ called' = called \cup {"dataframes"}
    /\ issues_df' = create_dataframes(issues_data, prs_data)[1]
    /\ prs_df' = create_dataframes(issues_data, prs_data)[2]
    /\ UNCHANGED <<issues_data, prs_data, start_date, end_date, current_date,
                   raised, out_columns>>
    /\ UNCHANGED <<kpis, kpi_cards, throughput_df, throughput_period,
                   cycle_time_df, cycle_time_period, timeline_df,
                   leaderboard_df, labels_df, linkage_df, aging_df>>

CalculateKpis ==
    /\ UNCHANGED app
    /\ "kpis" \notin called
    /\ called' = called \cup {"kpis"}
    /\ IF KpisRaise(issues_df, prs_df)
       THEN /\ raised' = raised \cup {"kpis"}
            /\ UNCHANGED <<kpis, out_columns>>
       ELSE /\ kpis' = calculate_kpis(issues_df, prs_df)
            /\ out_columns' = out_columns @@ ("kpis" :> DOMAIN kpis')
            /\ UNCHANGED raised
    /\ UNCHANGED <<inputs, kpi_cards, throughput_df, throughput_period,
                   cycle_time_df, cycle_time_period, timeline_df,
                   leaderboard_df, labels_df, linkage_df, aging_df>>

\* app.py: the cards are built from the KPI set.
RenderKpiCards ==
    /\ UNCHANGED app
    /\ "kpis" \in called \ raised
    /\ "cards" \notin called
    /\ kpi_cards' = [issue |-> AvgCard(kpis.avg_issue_resolution_days),
                     pr    |-> AvgCard(kpis.avg_pr_merge_days)]
    /\ called' = called \cup {"cards"}
    /\ UNCHANGED <<inputs, raised, out_columns, kpis, throughput_df,
                   throughput_period, cycle_time_df, cycle_time_period,
                   timeline_df, leaderboard_df, labels_df, linkage_df,
                   aging_df>>

CreateThroughputData ==
    /\ UNCHANGED app
    /\ "throughput" \notin called
    /\ called' = called \cup {"throughput"}
    /\ IF ThroughputRaises(issues_df)
       THEN /\ raised' = raised \cup {"throughput"}
            /\ UNCHANGED <<throughput_df, throughput_period, out_columns>>
       ELSE /\ throughput_period' = ThroughputPeriod(start_date, end_date)
            /\ throughput_df' = create_throughput_data(issues_df, prs_df, start_date, end_date)
            /\ out_columns' = out_columns @@
                    ("throughput" :> FrameColumns(throughput_df',
                                  EmptyFrameColumns("throughput")))
            /\ UNCHANGED raised
    /\ UNCHANGED <<inputs, kpis, kpi_cards, cycle_time_df, cycle_time_period,
                   timeline_df, leaderboard_df, labels_df, linkage_df,
                   aging_df>>

\* The period is chosen only past the early returns.
CreateCycleTimeData ==
    /\ UNCHANGED app
    /\ "cycle_time" \notin called
    /\ called' = called \cup {"cycle_time"}
    /\ cycle_time_period' = IF CycleEarlyReturn(prs_df, start_date, end_date) THEN ""
                            ELSE CyclePeriod(start_date, end_date)
    /\ cycle_time_df' = create_cycle_time_data(prs_df, start_date, end_date)
    /\ out_columns' = out_columns @@
            ("cycle_time" :> FrameColumns(cycle_time_df',
                          EmptyFrameColumns("cycle_time")))
    /\ UNCHANGED raised
    /\ UNCHANGED <<inputs, kpis, kpi_cards, throughput_df, throughput_period,
                   timeline_df, leaderboard_df, labels_df, linkage_df,
                   aging_df>>

CreateTimelineData ==
    /\ UNCHANGED app
    /\ "timeline" \notin called
    /\ called' = called \cup {"timeline"}
    /\ timeline_df' = create_timeline_data(issues_df, prs_df)
    /\ out_columns' = out_columns @@
            ("timeline" :> FrameColumns(timeline_df',
                          EmptyFrameColumns("timeline")))
    /\ UNCHANGED raised
    /\ issues_df' = IF ~Empty(issues_df) /\ "created_at" \in Columns(issues_df)
                    THEN AfterCopy(issues_df, WithDate(issues_df)) ELSE issues_df
    /\ prs_df' = IF ~Empty(prs_df) /\ "created_at" \in Columns(prs_df)
                 THEN AfterCopy(prs_df, WithDate(prs_df)) ELSE prs_df
    /\ UNCHANGED <<issues_data, prs_data, start_date, end_date, current_date>>
    /\ UNCHANGED <<kpis, kpi_cards, throughput_df, throughput_period,
                   cycle_time_df, cycle_time_period, leaderboard_df,
                   labels_df, linkage_df, aging_df>>

CreateContributorLeaderboard ==
    /\ UNCHANGED app
    /\ "leaderboard" \notin called
    /\ called' = called \cup {"leaderboard"}
    /\ leaderboard_df' = create_contributor_leaderboard(issues_df, prs_df)
    /\ out_columns' = out_columns @@
            ("leaderboard" :> FrameColumns(leaderboard_df',
                          EmptyFrameColumns("leaderboard")))
    /\ UNCHANGED raised
    /\ UNCHANGED <<inputs, kpis, kpi_cards, throughput_df, throughput_period,
                   cycle_time_df, cycle_time_period, timeline_df, labels_df,
                   linkage_df, aging_df>>

ExtractLabelsFrequency ==
    /\ UNCHANGED app
    /\ "labels" \notin called
    /\ called' = called \cup {"labels"}
    /\ labels_df' = extract_labels_frequency(issues_df, prs_df)
    /\ out_columns' = out_columns @@
            ("labels" :> FrameColumns(labels_df',
                          EmptyFrameColumns("labels")))
    /\ UNCHANGED raised
    /\ UNCHANGED <<inputs, kpis, kpi_cards, throughput_df, throughput_period,
                   cycle_time_df, cycle_time_period, timeline_df,
                   leaderboard_df, linkage_df, aging_df>>

ExtractPrIssueLinkage ==
    /\ UNCHANGED app
    /\ "linkage" \notin called
    /\ called' = called \cup {"linkage"}
    /\ IF LinkageRaises(prs_df)
       THEN /\ raised' = raised \cup {"linkage"}
            /\ UNCHANGED <<linkage_df, out_columns>>
       ELSE /\ linkage_df' \in extract_pr_issue_linkage(prs_df)
            /\ out_columns' = out_columns @@
                    ("linkage" :> FrameColumns(linkage_df',
                                  EmptyFrameColumns("linkage")))
            /\ UNCHANGED raised
    /\ UNCHANGED <<inputs, kpis, kpi_cards, throughput_df, throughput_period,
                   cycle_time_df, cycle_time_period, timeline_df,
                   leaderboard_df, labels_df, aging_df>>

CreateIssueAgingData ==
    /\ UNCHANGED app
    /\ "aging" \notin called
    /\ called' = called \cup {"aging"}
    /\ IF AgingRaises(issues_df)
       THEN /\ raised' = raised \cup {"aging"}
            /\ UNCHANGED <<aging_df, out_columns>>
       ELSE /\ aging_df' = create_issue_aging_data(issues_df, current_date)
            /\ out_columns' = out_columns @@
                    ("aging" :> FrameColumns(aging_df',
                                  EmptyFrameColumns("aging")))
            /\ UNCHANGED raised
    /\ UNCHANGED <<inputs, kpis, kpi_cards, throughput_df, throughput_period,
                   cycle_time_df, cycle_time_period, timeline_df,
                   leaderboard_df, labels_df, linkage_df>>

-----------------------------------------------------------------------------
(* Specification of the KPIs: tables that vary in state, closing and       *)
(* merging time.                                                           *)

KpiIssueShapes ==
    {IssueShape("open", DayStart(0), NaT, "alice", <<>>),
     IssueShape("closed", DayStart(0), NaT, "alice", <<>>)}
    \cup {IssueShape("closed", DayStart(0), DayStart(d), "alice", <<>>) : d \in 0..3}

KpiPrShapes ==
    {PrShape("open", DayStart(0), NaT, FALSE, "alice", <<>>),
     PrShape("closed", DayStart(0), NaT, FALSE, "alice", <<>>),
     PrShape("closed", DayStart(0), NaT, TRUE, "alice", <<>>),
     PrShape("closed", DayStart(0), DayStart(0), TRUE, "alice", <<>>),
     PrShape("closed", DayStart(0), DayStart(1) + 43200, TRUE, "alice", <<>>)}

InitKpi ==
    /\ \E t \in TablePairs(KpiIssueShapes, KpiPrShapes) :
          issues_df = t[1] /\ prs_df = t[2]
    /\ start_date = DayStart(0)
    /\ end_date = DayEnd(7)
    /\ NoOutputs

NextKpi == CalculateKpis \/ RenderKpiCards

SpecKpi == InitKpi /\ [][NextKpi]_vars

-----------------------------------------------------------------------------
(* Claims on the KPIs.                                                     *)

\* The issues that qualify for the average resolution time.
QualifyingIssues ==
    SelectSeq(issues_df, LAMBDA r : r.state = "closed" /\ r.closed_at # NaT)

\* The pull requests that qualify for the average merge time.
QualifyingPrs ==
    SelectSeq(prs_df, LAMBDA r : r.merged /\ r.merged_at # NaT)

\* The mean in days of (r[endcol] - r.created_at) over the rows of q, 0 for none.
ExpectedMean(q, endcol) ==
    IF Len(q) = 0 THEN Zero
    ELSE Frac(SumSeq([i \in 1..Len(q) |-> q[i][endcol] - q[i].created_at]),
              Len(q) * SecondsPerDay)

\* C1: each average KPI is the mean in days over the qualifying items only
\* (closed issues with closed_at, merged PRs with merged_at), and 0 when
\* there is none; items without the closing timestamp count nowhere.
C1_AveragesOverQualifying ==
    "kpis" \in called =>
        /\ kpis.avg_issue_resolution_days = ExpectedMean(QualifyingIssues, "closed_at")
        /\ kpis.avg_pr_merge_days = ExpectedMean(QualifyingPrs, "merged_at")

\* A closed issue without closed_at next to issues resolved in 1 and 3 days:
\* the average is 2 days.
C1_Witness ==
    /\ "kpis" \in called
    /\ \E i \in 1..Len(issues_df) :
          issues_df[i].state = "closed" /\ issues_df[i].closed_at = NaT
    /\ Len(QualifyingIssues) = 2
    /\ kpis.avg_issue_resolution_days = [num |-> 2, den |-> 1]

\* C2: a card shows "N/A" exactly when no item qualifies for its average; a
\* genuine average of 0 days is shown as a duration.
C2_SentinelNotConflated ==
    "cards" \in called =>
        /\ (kpi_cards.issue = NotApplicable) <=> (Len(QualifyingIssues) = 0)
        /\ (kpi_cards.pr = NotApplicable) <=> (Len(QualifyingPrs) = 0)

\* C3: open_issues + closed_issues = total_issues = the number of issues.
C3_OpenPlusClosedIsTotal ==
    "kpis" \in called =>
        /\ kpis.open_issues + kpis.closed_issues = kpis.total_issues
        /\ kpis.total_issues = Len(issues_df)

\* Open and closed issues together, one of the closed without closed_at.
C3_Witness ==
    /\ "kpis" \in called
    /\ kpis.open_issues >= 1
    /\ kpis.closed_issues >= 1
    /\ \E i \in 1..Len(issues_df) :
          issues_df[i].state = "closed" /\ issues_df[i].closed_at = NaT

-----------------------------------------------------------------------------
(* Specification of the time series: tables that vary in closing, creation *)
(* and merging time, under a daily, two weekly and a monthly window.       *)

Sunday6 == DayStart(6) + 36000

SeriesIssueShapes ==
    {IssueShape("open", DayStart(0), NaT, "alice", <<>>),
     IssueShape("closed", DayStart(0), NaT, "alice", <<>>)}
    \cup {IssueShape("closed", DayStart(0), t, "alice", <<>>) :
            t \in {DayStart(0), Sunday6, DayStart(7), DayStart(14), DayEnd(20),
                   DayStart(45)}}

SeriesPrShapes ==
    {PrShape("open", DayStart(0), NaT, FALSE, "alice", <<>>),
     PrShape("closed", DayStart(0), NaT, TRUE, "alice", <<>>)}
    \cup {PrShape("closed", DayStart(0), t, TRUE, "alice", <<>>) :
            t \in {DayStart(0), Sunday6, DayStart(14), DayEnd(20), DayStart(45)}}
    \cup {PrShape("closed", DayStart(2), t, TRUE, "alice", <<>>) :
            t \in {DayStart(7), DayStart(14)}}

SeriesWindows ==
    {<<DayStart(0), DayEnd(7)>>, <<DayStart(0), DayEnd(20)>>,
     <<DayStart(1) + 43200, DayEnd(20)>>, <<DayStart(0), DayEnd(95)>>}

InitSeries ==
    /\ \E t \in TablePairs(SeriesIssueShapes, SeriesPrShapes) :
          issues_df = t[1] /\ prs_df = t[2]
    /\ \E w \in SeriesWindows : start_date = w[1] /\ end_date = w[2]
    /\ NoOutputs

NextSeries == CreateThroughputData \/ CreateCycleTimeData

SpecSeries == InitSeries /\ [][NextSeries]_vars

-----------------------------------------------------------------------------
(* Specification of the period selection: windows of every length up to    *)
(* MaxSpanDays, starting at midnight or at noon.                           *)

PeriodIssueShapes == {IssueShape("closed", DayStart(0), DayStart(3), "alice", <<>>)}

PeriodPrShapes == {PrShape("closed", DayStart(2), DayStart(2) + 3600, TRUE, "alice", <<>>)}

InitPeriod ==
    /\ \E t \in TablePairs(PeriodIssueShapes, PeriodPrShapes) :
          issues_df = t[1] /\ prs_df = t[2]
    /\ start_date \in {DayStart(0), DayStart(1) + 43200}
    /\ end_date \in {DayEnd(e) : e \in 0..MaxSpanDays}
    /\ NoOutputs

SpecPeriod == InitPeriod /\ [][NextSeries]_vars

-----------------------------------------------------------------------------
(* Claims on the time series.                                              *)

\* The granularity the period selection rule gives the window.
RulePeriod ==
    LET d == (end_date - start_date) \div SecondsPerDay
    IN  IF d <= 7 THEN "D" ELSE IF d <= 90 THEN "W" ELSE "M"

\* The bucket of a timestamp: its day, its ISO week (Monday to Sunday, counted
\* from the week of 2024-01-01) or its calendar month.
BucketOf(period, t) ==
    IF period = "D" THEN DayOf(t)
    ELSE IF period = "W" THEN DayOf(t) \div 7
    ELSE MonthOf(DayOf(t))

\* The day number of the date "YYYY-MM-DD" that starts at field k of a text.
DateAt(text, k) == DaysBefore(text[k + 2]) + text[k + 3] - 1

\* The closed issues / merged PRs that count in the throughput of bucket b.
ClosedIn(period, b) ==
    {i \in 1..Len(issues_df) :
        /\ issues_df[i].state = "closed"
        /\ issues_df[i].closed_at # NaT
        /\ start_date <= issues_df[i].closed_at /\ issues_df[i].closed_at <= end_date
        /\ BucketOf(period, issues_df[i].closed_at) = b}

MergedIn(period, b) ==
    {i \in 1..Len(prs_df) :
        /\ prs_df[i].merged
        /\ prs_df[i].merged_at # NaT
        /\ start_date <= prs_df[i].merged_at /\ prs_df[i].merged_at <= end_date
        /\ BucketOf(period, prs_df[i].merged_at) = b}

\* The bucket a throughput row stands for.
ThroughputBucket(i) == BucketOf(RulePeriod, DayStart(DateAt(throughput_df[i].Period, 0)))

\* All buckets the timestamps of the model can fall in.
Buckets == {BucketOf(RulePeriod, DayStart(d)) : d \in 0..MaxSpanDays}

\* C4: every throughput row carries the number of closed issues and of merged
\* PRs of its bucket that lie in [start, end], bounds included; no bucket has
\* two rows; a bucket with an event of either kind has a row.
C4_ThroughputCounts ==
    "throughput" \in called =>
        /\ \A i \in 1..Len(throughput_df) :
              /\ throughput_df[i].Closed_Issues =
                    Cardinality(ClosedIn(RulePeriod, ThroughputBucket(i)))
              /\ throughput_df[i].Merged_PRs =
                    Cardinality(MergedIn(RulePeriod, ThroughputBucket(i)))
        /\ \A i, j \in 1..Len(throughput_df) :
              i # j => ThroughputBucket(i) # ThroughputBucket(j)
        /\ \A b \in Buckets :
              ClosedIn(RulePeriod, b) \cup MergedIn(RulePeriod, b) # {} =>
                  \E i \in 1..Len(throughput_df) : ThroughputBucket(i) = b

\* Weekly window; issues closed on 2024-01-01 and 2024-01-08, a PR merged on
\* 2024-01-15: three rows, the third with no closed issue.
C4_Witness ==
    /\ "throughput" \in called
    /\ throughput_period = "W"
    /\ \E i \in 1..Len(issues_df) : issues_df[i].closed_at = DayStart(0)
    /\ \E i \in 1..Len(issues_df) : issues_df[i].closed_at = DayStart(7)
    /\ \E i \in 1..Len(prs_df) : prs_df[i].merged_at = DayStart(14)
    /\ Len(throughput_df) = 3
    /\ throughput_df[1].Closed_Issues = 1 /\ throughput_df[1].Merged_PRs = 0
    /\ throughput_df[2].Closed_Issues = 1 /\ throughput_df[2].Merged_PRs = 0
    /\ throughput_df[3].Closed_Issues = 0 /\ throughput_df[3].Merged_PRs = 1

\* C5: daily for d <= 7, weekly for 7 < d <= 90, monthly beyond, with d the
\* whole days of the window; both series choose the same granularity.
C5_PeriodSelection ==
    /\ "throughput" \in called => throughput_period = RulePeriod
    /\ ("cycle_time" \in called /\ cycle_time_period # "") =>
            cycle_time_period = RulePeriod
    /\ ({"throughput", "cycle_time"} \subseteq called /\ cycle_time_period # "") =>
            cycle_time_period = throughput_period

\* A window of exactly 7 whole days that starts at noon: both series are daily.
C5_Witness ==
    /\ {"throughput", "cycle_time"} \subseteq called
    /\ start_date = DayStart(1) + 43200
    /\ DaysRange(start_date, end_date) = 7
    /\ throughput_period = "D"
    /\ cycle_time_period = "D"

\* The merged PRs the cycle time is about.
CycleQualifying ==
    SelectSeq(prs_df, LAMBDA r : /\ r.merged
                                 /\ r.created_at >= start_date
                                 /\ r.merged_at # NaT
                                 /\ r.merged_at <= end_date)

\* The bucket a cycle-time row stands for.
CycleBucket(i) ==
    IF RulePeriod = "M" THEN cycle_time_df[i].Period[2]
    ELSE BucketOf(RulePeriod, DayStart(DateAt(cycle_time_df[i].Period, 0)))

\* The qualifying PRs merged in bucket b.
CycleMembers(b) ==
    SelectSeq(CycleQualifying, LAMBDA r : BucketOf(RulePeriod, r.merged_at) = b)

\* C6: a bucket that has a row in both series carries the same Period value
\* in the throughput row and in the cycle-time row, so the two can be matched
\* on Period.
C6_SamePeriodValue ==
    {"throughput", "cycle_time"} \subseteq called =>
        \A c \in 1..Len(cycle_time_df), t \in 1..Len(throughput_df) :
            CycleBucket(c) = ThroughputBucket(t) =>
                throughput_df[t].Period = cycle_time_df[c].Period

\* C7: one cycle-time row per bucket that holds the merge of a qualifying PR
\* (merged, created_at >= start, merged_at <= end), none for any other bucket,
\* and the row's value is the mean cycle time in days over those PRs.
C7_CycleTimeRows ==
    "cycle_time" \in called =>
        /\ \A i \in 1..Len(cycle_time_df) :
              /\ Len(CycleMembers(CycleBucket(i))) >= 1
              /\ cycle_time_df[i].Avg_Cycle_Time_Days =
                    ExpectedMean(CycleMembers(CycleBucket(i)), "merged_at")
        /\ \A i, j \in 1..Len(cycle_time_df) : i # j => CycleBucket(i) # CycleBucket(j)
        /\ \A k \in 1..Len(CycleQualifying) :
              \E i \in 1..Len(cycle_time_df) :
                  CycleBucket(i) = BucketOf(RulePeriod, CycleQualifying[k].merged_at)

\* Two PRs merged on 2024-01-15 inside the window, one created before the
\* start of the window: a single row, 12 days, from the other PR alone.
C7_Witness ==
    /\ "cycle_time" \in called
    /\ \E i \in 1..Len(prs_df) :
          /\ prs_df[i].merged /\ prs_df[i].merged_at = DayStart(14)
          /\ prs_df[i].created_at < start_date
    /\ Len(cycle_time_df) = 1
    /\ cycle_time_df[1].Avg_Cycle_Time_Days = [num |-> 12, den |-> 1]

-----------------------------------------------------------------------------
(* Specification of the timeline: tables that vary in creation time,       *)
(* under two windows.                                                      *)

TimelineCreated == {DayStart(0), DayStart(0) + 50000, DayStart(1), DayStart(30)}

TimelineIssueShapes ==
    {IssueShape("open", t, NaT, "alice", <<>>) : t \in TimelineCreated}

TimelinePrShapes ==
    {PrShape("open", t, NaT, FALSE, "alice", <<>>) : t \in TimelineCreated}

InitTimeline ==
    /\ \E t \in TablePairs(TimelineIssueShapes, TimelinePrShapes) :
          issues_df = t[1] /\ prs_df = t[2]
    /\ \E w \in {<<DayStart(0), DayEnd(7)>>, <<DayStart(1), DayEnd(20)>>} :
          start_date = w[1] /\ end_date = w[2]
    /\ NoOutputs

NextTimeline == CreateTimelineData

SpecTimeline == InitTimeline /\ [][NextTimeline]_vars

\* The issues / PRs created on calendar date d.
IssuesCreatedOn(d) == {i \in 1..Len(issues_df) : DayOf(issues_df[i].created_at) = d}

PrsCreatedOn(d) == {i \in 1..Len(prs_df) : DayOf(prs_df[i].created_at) = d}

\* C8: the timeline has exactly one row per calendar date on which an issue
\* or PR was created, with the numbers of issues and of PRs created that date
\* and their sum as Total, whatever the window.
C8_TimelineRows ==
    "timeline" \in called =>
        /\ \A k \in 1..Len(timeline_df) :
              /\ timeline_df[k].Issues = Cardinality(IssuesCreatedOn(timeline_df[k].Date))
              /\ timeline_df[k].PRs = Cardinality(PrsCreatedOn(timeline_df[k].Date))
              /\ timeline_df[k].Total = timeline_df[k].Issues + timeline_df[k].PRs
              /\ timeline_df[k].Total >= 1
        /\ \A j, k \in 1..Len(timeline_df) :
              j # k => timeline_df[j].Date # timeline_df[k].Date
        /\ \A d \in 0..MaxSpanDays :
              IssuesCreatedOn(d) \cup PrsCreatedOn(d) # {} =>
                  \E k \in 1..Len(timeline_df) : timeline_df[k].Date = d

\* An issue and a PR created on the same date at different times of day share
\* one row, and a date outside the window has its row too.
C8_Witness ==
    /\ "timeline" \in called
    /\ \E k \in 1..Len(timeline_df) :
          /\ timeline_df[k].Issues = 1 /\ timeline_df[k].PRs = 1
          /\ timeline_df[k].Total = 2
          /\ \E i \in IssuesCreatedOn(timeline_df[k].Date),
                j \in PrsCreatedOn(timeline_df[k].Date) :
                issues_df[i].created_at # prs_df[j].created_at
    /\ \E k \in 1..Len(timeline_df) : DayStart(timeline_df[k].Date) > end_date

-----------------------------------------------------------------------------
(* Specification of the leaderboard: tables that vary in user.             *)

Users == {"alice", "bob", "carol"}

ContribIssueShapes == {IssueShape("open", DayStart(0), NaT, u, <<>>) : u \in Users}

ContribPrShapes == {PrShape("open", DayStart(0), NaT, FALSE, u, <<>>) : u \in Users}

InitContrib ==
    /\ \E t \in TablePairsUpTo(ContribIssueShapes, ContribPrShapes, MaxContribRows) :
          issues_df = t[1] /\ prs_df = t[2]
    /\ start_date = DayStart(0)
    /\ end_date = DayEnd(7)
    /\ NoOutputs

NextContrib == CreateContributorLeaderboard

SpecContrib == InitContrib /\ [][NextContrib]_vars

\* The number of rows of a table whose user is u.
RowsOfUser(df, u) == Cardinality({i \in 1..Len(df) : df[i].user = u})

\* The logins seen in either table.
SeenUsers == {issues_df[i].user : i \in 1..Len(issues_df)}
             \cup {prs_df[i].user : i \in 1..Len(prs_df)}

\* C9: the leaderboard has exactly one row per login seen in either table,
\* with that user's numbers of issues and of PRs and their sum as Total, in
\* non-increasing order of Total.
C9_LeaderboardRows ==
    "leaderboard" \in called =>
        /\ {leaderboard_df[k].Contributor : k \in 1..Len(leaderboard_df)} = SeenUsers
        /\ Len(leaderboard_df) = Cardinality(SeenUsers)
        /\ \A k \in 1..Len(leaderboard_df) :
              /\ leaderboard_df[k].Issues =
                    RowsOfUser(issues_df, leaderboard_df[k].Contributor)
              /\ leaderboard_df[k].PRs =
                    RowsOfUser(prs_df, leaderboard_df[k].Contributor)
              /\ leaderboard_df[k].Total =
                    leaderboard_df[k].Issues + leaderboard_df[k].PRs
        /\ \A k \in 1..(Len(leaderboard_df) - 1) :
              leaderboard_df[k].Total >= leaderboard_df[k + 1].Total

\* Two issues by alice, one PR by alice and three by bob: alice 2, 1, 3 and
\* bob 0, 3, 3.
C9_Witness ==
    /\ "leaderboard" \in called
    /\ Len(issues_df) = 2 /\ Len(prs_df) = 4
    /\ leaderboard_df =
          <<[Contributor |-> "alice", Issues |-> 2, PRs |-> 1, Total |-> 3],
            [Contributor |-> "bob", Issues |-> 0, PRs |-> 3, Total |-> 3]>>

-----------------------------------------------------------------------------
(* Specification of the label frequency: tables that vary in the list of   *)
(* labels of each item.                                                    *)

LabelLists == {<<>>, <<"bug">>, <<"ui">>, <<"bug", "ui">>, <<"bug", "bug">>}

LabelIssueShapes == {IssueShape("open", DayStart(0), NaT, "alice", l) : l \in LabelLists}

LabelPrShapes == {PrShape("open", DayStart(0), NaT, FALSE, "alice", l) : l \in LabelLists}

InitLabels ==
    /\ \E t \in TablePairs(LabelIssueShapes, LabelPrShapes) :
          issues_df = t[1] /\ prs_df = t[2]
    /\ start_date = DayStart(0)
    /\ end_date = DayEnd(7)
    /\ NoOutputs

NextLabels == ExtractLabelsFrequency

SpecLabels == InitLabels /\ [][NextLabels]_vars

\* The items of a table that carry label l.
Carrying(df, l) ==
    {i \in 1..Len(df) : \E k \in 1..Len(df[i].labels) : df[i].labels[k] = l}

\* The labels carried by some item.
CarriedLabels ==
    UNION {{issues_df[i].labels[k] : k \in 1..Len(issues_df[i].labels)} :
              i \in 1..Len(issues_df)}
    \cup UNION {{prs_df[i].labels[k] : k \in 1..Len(prs_df[i].labels)} :
              i \in 1..Len(prs_df)}

\* C10: the label table has one row per distinct label, whose Count is the
\* number of items (issues plus PRs) that carry the label, in non-increasing
\* order of Count.
C10_LabelCounts ==
    "labels" \in called =>
        /\ {labels_df[k].Label : k \in 1..Len(labels_df)} = CarriedLabels
        /\ Len(labels_df) = Cardinality(CarriedLabels)
        /\ \A k \in 1..Len(labels_df) :
              labels_df[k].Count =
                  Cardinality(Carrying(issues_df, labels_df[k].Label))
                  + Cardinality(Carrying(prs_df, labels_df[k].Label))
        /\ \A k \in 1..(Len(labels_df) - 1) :
              labels_df[k].Count >= labels_df[k + 1].Count

-----------------------------------------------------------------------------
(* Specification of the linkage: pull requests whose body is a text, null  *)
(* or not given.                                                           *)

\* The empty body.
BodyEmpty ==
    <<>>

\* "Fixes #12 and relates to #7, also see #12"
BodySpecExample ==
    <<"F", "i", "x", "e", "s", " ", "#", "1", "2", " ", "a", "n", "d", " ",
      "r", "e", "l", "a", "t", "e", "s", " ", "t", "o", " ", "#", "7", ",",
      " ", "a", "l", "s", "o", " ", "s", "e", "e", " ", "#", "1", "2">>

\* "see #10, #9"
BodyNineTen ==
    <<"s", "e", "e", " ", "#", "1", "0", ",", " ", "#", "9">>

\* "#7 closes #07"
BodySameNumber ==
    <<"#", "7", " ", "c", "l", "o", "s", "e", "s", " ", "#", "0", "7">>

\* "issue # 5, v2"
BodyNoReference ==
    <<"i", "s", "s", "u", "e", " ", "#", " ", "5", ",", " ", "v", "2">>

\* "CLOSES\n#3"
BodyUpperCase ==
    <<"C", "L", "O", "S", "E", "S", "\n", "#", "3">>

\* "Related to #4 resolves #21"
BodyRelated ==
    <<"R", "e", "l", "a", "t", "e", "d", " ", "t", "o", " ", "#", "4", " ",
      "r", "e", "s", "o", "l", "v", "e", "s", " ", "#", "2", "1">>

BodyTexts == {BodyEmpty, BodySpecExample, BodyNineTen, BodySameNumber,
              BodyNoReference, BodyUpperCase, BodyRelated}

\* No body key in the dictionary.
Absent == [kind |-> "absent", text |-> <<>>]

BodyCells == {Str(b) : b \in BodyTexts} \cup {None, Absent}

Titles == <<"Add login", "Fix crash", "Update docs", "Bump deps">>

\* A dictionary without one of its keys.
WithoutKey(item, key) == [col \in DOMAIN item \ {key} |-> item[col]]

\* The i-th pull request of a repository that has four issues.
RawPr(i, cell) ==
    LET item == PrData(4 + i, Titles[((i - 1) % Len(Titles)) + 1], "open",
                       DayStart(0), NaT, NaT, FALSE, "alice", <<>>, <<>>)
    IN  IF cell = Absent THEN WithoutKey(item, "body")
        ELSE [item EXCEPT !.body = cell]

\* The tables are those create_dataframes makes of the raw lists.
Normalized ==
    /\ issues_df = create_dataframes(issues_data, prs_data)[1]
    /\ prs_df = create_dataframes(issues_data, prs_data)[2]

InitLinkage ==
    /\ issues_data = <<>>
    /\ \E cells \in SeqUpTo(BodyCells, MaxRows) :
          prs_data = [i \in DOMAIN cells |-> RawPr(i, cells[i])]
    /\ Normalized
    /\ start_date = DayStart(0)
    /\ end_date = DayEnd(7)
    /\ current_date = DayEnd(7)
    /\ NoAggregate

NextLinkage == ExtractPrIssueLinkage

SpecLinkage == InitLinkage /\ [][NextLinkage]_vars

-----------------------------------------------------------------------------
(* Claims on the linkage.                                                  *)

\* The call returned a frame.
Returned(name) == name \in called \ raised

\* The numerals written after a '#' in a text.
ReferencedNumerals(text) ==
    {SubSeq(text, i + 1, RunEnd(text, i + 1, Digit) - 1) :
        i \in {j \in DOMAIN text :
                  text[j] = "#" /\ j < Len(text) /\ text[j + 1] \in Digit}}

\* The references of a body cell: a body that is not a text has none.
References(body) ==
    IF body.kind = "str" THEN ReferencedNumerals(body.text) ELSE {}

RECURSIVE SplitOn(_, _)
\* The pieces of a text between the occurrences of a separator.
SplitOn(text, sep) ==
    LET at == {i \in 1..(Len(text) - Len(sep) + 1) :
                  SubSeq(text, i, i + Len(sep) - 1) = sep}
    IN  IF at = {} THEN <<text>>
        ELSE LET i == CHOOSE x \in at : \A y \in at : x <= y
             IN  <<SubSeq(text, 1, i - 1)>>
                 \o SplitOn(SubSeq(text, i + Len(sep), Len(text)), sep)

IsNumeral(piece) == piece # <<>> /\ \A i \in DOMAIN piece : piece[i] \in Digit

\* The pull request a linkage row is about.
PrOfRow(row) == CHOOSE i \in DOMAIN prs_df : prs_df[i].number = row["PR Number"]

BodyOfRow(row) ==
    IF "body" \in Columns(prs_df) THEN prs_df[PrOfRow(row)].body ELSE NaN

\* The issue numbers a row lists, in the order it lists them.
Listed(row) ==
    LET pieces == SplitOn(row["Linked Issues"], CommaSpace)
    IN  [i \in DOMAIN pieces |-> int(pieces[i])]

\* C11: the issue numbers listed for a pull request are exactly the integers
\* n with a reference '#n' in its body, and no integer is listed twice.
C11_DistinctIssueNumbers ==
    Returned("linkage") =>
        \A k \in DOMAIN linkage_df :
            LET listed == Listed(linkage_df[k])
            IN  /\ {listed[i] : i \in DOMAIN listed}
                       = {int(n) : n \in References(BodyOfRow(linkage_df[k]))}
                /\ \A i, j \in DOMAIN listed : i # j => listed[i] # listed[j]

\* The text is the numerals of the body, each once, joined by the separator
\* with values that never decrease.
JoinedBy(row, sep) ==
    LET pieces == SplitOn(row["Linked Issues"], sep)
        refs == References(BodyOfRow(row))
    IN  /\ \A i \in DOMAIN pieces : IsNumeral(pieces[i])
        /\ {pieces[i] : i \in DOMAIN pieces} = refs
        /\ Len(pieces) = Cardinality(refs)
        /\ \A i, j \in DOMAIN pieces : i < j => int(pieces[i]) <= int(pieces[j])

\* Pull request #5 alone, with the body of the example.
ExampleGiven ==
    prs_data = <<RawPr(1, Str(BodySpecExample))>>

ExampleRow(text) ==
    <<("PR Number" :> 5) @@ ("PR Title" :> Titles[1]) @@ ("Linked Issues" :> text)>>

Referencing ==
    SelectSeq(prs_df, LAMBDA pr : "body" \in DOMAIN pr /\ References(pr.body) # {})

\* C13: the rows are the pull requests whose body has a reference, one row
\* each in the order of the table, with the number and the title of the pull
\* request; no row has an empty Linked Issues.
C13_OneRowPerReferencingPr ==
    Returned("linkage") =>
        /\ Len(linkage_df) = Len(Referencing)
        /\ \A k \in DOMAIN linkage_df :
              /\ linkage_df[k]["PR Number"] = Referencing[k].number
              /\ linkage_df[k]["PR Title"] = Referencing[k].title
              /\ linkage_df[k]["Linked Issues"] # <<>>

\* Three pull requests, the second without a reference: two rows.
C13_Witness ==
    /\ Returned("linkage")
    /\ Len(prs_df) = 3
    /\ "body" \in Columns(prs_df)
    /\ References(prs_df[1].body) # {}
    /\ References(prs_df[2].body) = {}
    /\ References(prs_df[3].body) # {}
    /\ Len(linkage_df) = 2
    /\ linkage_df[2]["PR Number"] = prs_df[3].number

\* The body of a row of the table is empty, null or the missing marker.
NoBodyText(pr) == "body" \notin DOMAIN pr \/ pr.body \in {Str(<<>>), None, NaN}

\* C14: the call never raises whatever the bodies are (empty, null, not
\* given on some items), and a pull request without body text has no row.
C14_ScanCompletes ==
    "linkage" \in called =>
        /\ "linkage" \notin raised
        /\ \A i \in DOMAIN prs_df :
              NoBodyText(prs_df[i]) =>
                  \A k \in DOMAIN linkage_df :
                      linkage_df[k]["PR Number"] # prs_df[i].number

-----------------------------------------------------------------------------
(* Specification of the aging: issues open or closed, of ages on both      *)
(* sides of the bucket bounds, seen from day 60.                           *)

\* The creation time of an issue that is days and seconds old on day 60.
Aged(days, seconds) == DayStart(60) - days * SecondsPerDay - seconds

AgingShapes ==
    {IssueShape("open", Aged(d, 0), NaT, "alice", <<>>) : d \in {5, 7, 20, 30, 40}}
    \cup {IssueShape("open", Aged(d, 1), NaT, "alice", <<>>) : d \in {7, 30}}
    \cup {IssueShape("closed", Aged(d, 0), Aged(1, 0), "alice", <<>>) : d \in {5, 40}}

InitAging ==
    /\ \E shapes \in SeqUpTo(AgingShapes, MaxRows) :
          /\ issues_df = create_dataframes(IssueTable(shapes), <<>>)[1]
          /\ prs_df = create_dataframes(IssueTable(shapes), <<>>)[2]
    /\ start_date = DayStart(0)
    /\ end_date = DayStart(60)
    /\ NoOutputs

NextAging == CreateIssueAgingData

SpecAging == InitAging /\ [][NextAging]_vars

-----------------------------------------------------------------------------
(* Claims on the aging.                                                    *)

OpenIssues == SelectSeq(issues_df, LAMBDA r : r.state = "open")

\* The bucket of an age in seconds: up to 7 days, up to 30 days, beyond.
BucketOfAge(a) ==
    IF a <= 7 * 86400 THEN "0-7 days"
    ELSE IF a <= 30 * 86400 THEN "7-30 days"
    ELSE "30+ days"

OpenIn(bucket) ==
    {i \in DOMAIN OpenIssues :
        BucketOfAge(current_date - OpenIssues[i].created_at) = bucket}

\* C15: each open issue is counted in the bucket of its age (up to 7 days,
\* up to 30 days, beyond), each Count is the number of open issues of the
\* bucket, closed issues are not counted, the counts sum to the number of
\* open issues.
C15_AgeBuckets ==
    Returned("aging") =>
        /\ \A k \in DOMAIN aging_df :
              aging_df[k].Count = Cardinality(OpenIn(aging_df[k].Age_Bucket))
        /\ \A i \in DOMAIN OpenIssues :
              \E k \in DOMAIN aging_df :
                  aging_df[k].Age_Bucket
                      = BucketOfAge(current_date - OpenIssues[i].created_at)
        /\ SumSeq([k \in DOMAIN aging_df |-> aging_df[k].Count]) = Len(OpenIssues)

\* Open issues of 5, 20 and 40 days: one in each bucket.
C15_Witness ==
    /\ Returned("aging")
    /\ Len(issues_df) = 3
    /\ \A i \in DOMAIN issues_df : issues_df[i].state = "open"
    /\ {issues_df[i].created_at : i \in DOMAIN issues_df}
           = {Aged(5, 0), Aged(20, 0), Aged(40, 0)}
    /\ aging_df = <<[Age_Bucket |-> "0-7 days", Count |-> 1],
                    [Age_Bucket |-> "7-30 days", Count |-> 1],
                    [Age_Bucket |-> "30+ days", Count |-> 1]>>

\* C16: whatever the issues are, none at all or none open included, the
\* output has the rows '0-7 days', '7-30 days', '30+ days' once each in
\* that order, with Count 0 for a bucket without issue.
C16_AllBucketsAlways ==
    Returned("aging") =>
        /\ [k \in DOMAIN aging_df |-> aging_df[k].Age_Bucket]
               = <<"0-7 days", "7-30 days", "30+ days">>
        /\ \A k \in DOMAIN aging_df :
              OpenIn(aging_df[k].Age_Bucket) = {} => aging_df[k].Count = 0

-----------------------------------------------------------------------------
(* Specification of the aggregates together: every aggregate is called, in *)
(* any order, on tables of which none, one or both are empty.              *)

AllIssueShapes ==
    {IssueShape("open", DayStart(1), NaT, "alice", <<"bug">>),
     IssueShape("closed", DayStart(1), DayStart(3), "bob", <<>>)}

AllPrShapes ==
    {PrShape("open", DayStart(2), NaT, FALSE, "bob", <<"bug">>),
     PrShape("closed", DayStart(1), DayStart(2), TRUE, "alice", <<>>)}

InitAll ==
    /\ \E t \in TablePairs(AllIssueShapes, AllPrShapes) :
          issues_df = t[1] /\ prs_df = t[2]
    /\ start_date = DayStart(0)
    /\ end_date = DayEnd(7)
    /\ NoOutputs

NextAll ==
    \/ CalculateKpis
    \/ ExtractLabelsFrequency
    \/ CreateContributorLeaderboard
    \/ ExtractPrIssueLinkage
    \/ CreateTimelineData
    \/ CreateThroughputData
    \/ CreateCycleTimeData
    \/ CreateIssueAgingData

SpecAll == InitAll /\ [][NextAll]_vars

-----------------------------------------------------------------------------
(* Claims on empty inputs and on the inputs after a call.                  *)

\* The frame an aggregate returned.
Result(name) ==
    CASE name = "labels" -> labels_df
      [] name = "leaderboard" -> leaderboard_df
      [] name = "timeline" -> timeline_df
      [] name = "throughput" -> throughput_df
      [] name = "cycle_time" -> cycle_time_df
      [] name = "linkage" -> linkage_df
      [] name = "aging" -> aging_df

\* The column names of the frame of an aggregate.
ColumnNames(name) ==
    CASE name = "labels" -> {"Label", "Count"}
      [] name = "leaderboard" -> {"Contributor", "Issues", "PRs", "Total"}
      [] name = "timeline" -> {"Date", "Issues", "PRs", "Total"}
      [] name = "throughput" -> {"Period", "Closed_Issues", "Merged_PRs"}
      [] name = "cycle_time" -> {"Period", "Avg_Cycle_Time_Days"}
      [] name = "linkage" -> {"PR Number", "PR Title", "Linked Issues"}
      [] name = "aging" -> {"Age_Bucket", "Count"}

\* The aggregates that read both tables, and those that read the pull
\* requests alone.
OfBothTables == {"labels", "leaderboard", "timeline", "throughput"}
OfPrsAlone == {"cycle_time", "linkage"}

\* All the tables an aggregate reads are empty.
NothingToRead(name) ==
    \/ name \in OfBothTables /\ Empty(issues_df) /\ Empty(prs_df)
    \/ name \in OfPrsAlone /\ Empty(prs_df)

\* C17: with an empty issue table, an empty pull-request table or both, no
\* aggregate raises; the counts and averages of an empty collection are 0,
\* and a frame with nothing to read has no row and the column names of the
\* aggregate.
C17_EmptyInputsNeverRaise ==
    (Empty(issues_df) \/ Empty(prs_df)) =>
        /\ raised \cap ({"kpis"} \cup OfBothTables \cup OfPrsAlone) = {}
        /\ (Returned("kpis") /\ Empty(issues_df)) =>
              /\ kpis.total_issues = 0
              /\ kpis.open_issues = 0
              /\ kpis.closed_issues = 0
              /\ kpis.avg_issue_resolution_days = Zero
        /\ (Returned("kpis") /\ Empty(prs_df)) =>
              /\ kpis.total_prs = 0
              /\ kpis.open_prs = 0
              /\ kpis.merged_prs = 0
              /\ kpis.avg_pr_merge_days = Zero
        /\ \A name \in OfBothTables \cup OfPrsAlone :
              (name \in called /\ NothingToRead(name)) =>
                  /\ Result(name) = <<>>
                  /\ out_columns[name] = ColumnNames(name)

\* Both tables are empty and the seven aggregates have been called.
C17_Witness ==
    /\ Empty(issues_df)
    /\ Empty(prs_df)
    /\ {"kpis"} \cup OfBothTables \cup OfPrsAlone \subseteq called

\* What a call made now would return is what the call made has returned.
SameResults ==
    /\ Returned("kpis") => kpis = calculate_kpis(issues_df, prs_df)
    /\ Returned("labels") => labels_df = extract_labels_frequency(issues_df, prs_df)
    /\ Returned("leaderboard") =>
          leaderboard_df = create_contributor_leaderboard(issues_df, prs_df)
    /\ Returned("linkage") => linkage_df \in extract_pr_issue_linkage(prs_df)
    /\ Returned("timeline") => timeline_df = create_timeline_data(issues_df, prs_df)
    /\ Returned("throughput") =>
          throughput_df = create_throughput_data(issues_df, prs_df, start_date, end_date)
    /\ Returned("cycle_time") =>
          cycle_time_df = create_cycle_time_data(prs_df, start_date, end_date)
    /\ Returned("aging") => aging_df = create_issue_aging_data(issues_df, current_date)

\* C20: after any calls of the aggregates both tables have the rows, columns
\* and cells the normalizer gave them, so that the results do not depend on
\* the order of the calls and a repeated call returns the same.
C20_InputsNotMutated ==
    /\ issues_df = create_dataframes(issues_data, prs_data)[1]
    /\ prs_df = create_dataframes(issues_data, prs_data)[2]
    /\ SameResults

\* The eight aggregates have been called on two tables with rows.
C20_Witness ==
    /\ ~Empty(issues_df)
    /\ ~Empty(prs_df)
    /\ {"kpis", "aging"} \cup OfBothTables \cup OfPrsAlone \subseteq called

-----------------------------------------------------------------------------
(* Specification of the normalizer: raw items that lack one of their keys. *)

NoGap == "(none)"

IssueGaps == {NoGap, "number", "created_at", "state", "closed_at", "user"}

PrGaps == {NoGap, "state", "closed_at", "merged_at", "body", "user"}

\* A raw issue, open or closed, with or without one key.
RawIssue(i, state, gap) ==
    WithoutKey(IF state = "open"
               THEN IssueData(i, "Issue", "open", DayStart(1), NaT, "alice", <<>>)
               ELSE IssueData(i, "Issue", "closed", DayStart(1), DayStart(3), "bob", <<>>),
               gap)

\* A raw merged pull request, with or without one key, or with a null body.
RawPull(i, gap) ==
    LET item == PrData(i, "Pull request", "closed", DayStart(1), DayStart(2),
                       DayStart(2), TRUE, "alice", <<>>, BodyNineTen)
    IN  IF gap = "null body" THEN [item EXCEPT !.body = None]
        ELSE WithoutKey(item, gap)

\* The lists of raw issues and pull requests with at most n items together.
RawListsUpTo(n) ==
    {<<[i \in DOMAIN x[1] |-> RawIssue(i, x[1][i][1], x[1][i][2])],
       [i \in DOMAIN x[2] |-> RawPull(Len(x[1]) + i, x[2][i])]>> :
        x \in UNION {[1..k -> {"open", "closed"} \X IssueGaps]
                         \X SeqUpTo(PrGaps \cup {"null body"}, n - k) :
                     k \in 0..n}}

InitNormalize ==
    /\ \E t \in RawListsUpTo(MaxRows) : issues_data = t[1] /\ prs_data = t[2]
    /\ issues_df = <<>>
    /\ prs_df = <<>>
    /\ start_date = DayStart(0)
    /\ end_date = DayEnd(7)
    /\ current_date = DayEnd(7)
    /\ NoAggregate

NextNormalize == CreateDataframes

SpecNormalize == InitNormalize /\ [][NextNormalize]_vars

-----------------------------------------------------------------------------
(* Claims on the normalizer.                                               *)

Required == {"number", "created_at", "state"}

\* Some raw item lacks a required field.
LacksRequired ==
    \/ \E i \in DOMAIN issues_data : ~(Required \subseteq DOMAIN issues_data[i])
    \/ \E i \in DOMAIN prs_data : ~(Required \subseteq DOMAIN prs_data[i])

\* C18: when a raw item lacks number, created_at or state, the normalizer
\* raises and returns no tables.
C18_FailsFast ==
    ("dataframes" \in called /\ LacksRequired) =>
        /\ "dataframes" \in raised
        /\ issues_df = <<>>
        /\ prs_df = <<>>

IssueRecordColumns ==
    {"number", "title", "state", "created_at", "closed_at", "user", "labels",
     "comments"}

PrRecordColumns ==
    IssueRecordColumns \cup {"merged_at", "merged", "body", "review_comments"}

\* The table has the columns of the record, the is_pr tag apart, and a cell
\* of an item without the key holds the missing marker.
FixedSchema(df, data, columns) ==
    /\ Columns(df) \ {"is_pr"} = columns
    /\ Len(df) = Len(data)
    /\ \A i \in DOMAIN data :
          \A col \in columns \ DOMAIN data[i] : df[i][col] = Missing(col)

\* C19: when closed_at, merged_at, body or user is absent or null, on some
\* items or on all, the normalizer succeeds and each table has exactly the
\* columns of the data model, with the missing marker in the absent cells.
C19_FixedSchema ==
    ("dataframes" \in called /\ ~LacksRequired) =>
        /\ "dataframes" \notin raised
        /\ FixedSchema(issues_df, issues_data, IssueRecordColumns)
        /\ FixedSchema(prs_df, prs_data, PrRecordColumns)

-----------------------------------------------------------------------------
(* Claims on the rows of the throughput series.                            *)

\* The day number of the Period of row i.
PeriodDay(i) == DateAt(throughput_df[i].Period, 0)

\* The first day of a bucket: the day, the Monday of the week, the first of
\* the month.
BucketStart(period, b) ==
    IF period = "D" THEN b
    ELSE IF period = "W" THEN 7 * b
    ELSE DaysBefore(b)

\* The timestamps of the events counted in bucket b.
CountedIn(period, b) ==
    {issues_df[i].closed_at : i \in ClosedIn(period, b)}
    \cup {prs_df[i].merged_at : i \in MergedIn(period, b)}

\* C22: the Period of every throughput row is the first day of its bucket
\* (the day, the Monday of the week, the first of the month), and every
\* event counted in the row is at or after the start of that day.
C22_KeyedByBucketStart ==
    "throughput" \in called =>
        \A i \in 1..Len(throughput_df) :
            /\ PeriodDay(i) = BucketStart(RulePeriod, ThroughputBucket(i))
            /\ \A t \in CountedIn(RulePeriod, ThroughputBucket(i)) :
                  t >= DayStart(PeriodDay(i))

\* C23: the throughput rows are in strictly ascending order of Period, so
\* no two rows have the same Period and the order is chronological.
C23_StrictlyAscending ==
    "throughput" \in called =>
        \A i \in 1..(Len(throughput_df) - 1) :
            /\ throughput_df[i].Period[1] = throughput_df[i + 1].Period[1]
            /\ PeriodDay(i) < PeriodDay(i + 1)

\* Weekly window; an issue closed on 2024-01-15, PRs merged on 2024-01-15 and
\* on 2024-01-01: the merged counts go on the rows of their weeks, the week
\* between has a row, and the rows are in order.
C23_Witness ==
    /\ "throughput" \in called
    /\ throughput_period = "W"
    /\ Len(issues_df) = 1 /\ issues_df[1].closed_at = DayStart(14)
    /\ Len(prs_df) = 2
    /\ prs_df[1].merged_at = DayStart(14) /\ prs_df[2].merged_at = DayStart(0)
    /\ Len(throughput_df) = 3
    /\ throughput_df[1].Merged_PRs = 1 /\ throughput_df[1].Closed_Issues = 0
    /\ throughput_df[3].Merged_PRs = 1 /\ throughput_df[3].Closed_Issues = 1

\* C26: every throughput row counts at least one event.
C26_NoEmptyBucket ==
    "throughput" \in called =>
        \A i \in 1..Len(throughput_df) :
            throughput_df[i].Closed_Issues + throughput_df[i].Merged_PRs >= 1

-----------------------------------------------------------------------------
(* Specification of the leaderboard over normalized tables: raw items with *)
(* or without a user, made into tables, then counted.                      *)

UserGaps == {NoGap, "user"}

\* The lists of raw issues and pull requests with at most n items together,
\* each item with or without its user key.
UserGapListsUpTo(n) ==
    {<<[i \in DOMAIN x[1] |-> RawIssue(i, x[1][i][1], x[1][i][2])],
       [i \in DOMAIN x[2] |-> RawPull(Len(x[1]) + i, x[2][i])]>> :
        x \in UNION {[1..k -> {"open", "closed"} \X UserGaps]
                         \X SeqUpTo(UserGaps, n - k) :
                     k \in 0..n}}

InitConserve ==
    /\ \E t \in UserGapListsUpTo(MaxRows) : issues_data = t[1] /\ prs_data = t[2]
    /\ issues_df = <<>>
    /\ prs_df = <<>>
    /\ start_date = DayStart(0)
    /\ end_date = DayEnd(7)
    /\ current_date = DayEnd(7)
    /\ NoAggregate

\* app.py: the tables are made first, the KPI set and the leaderboard are
\* computed from them.
NextConserve ==
    \/ CreateDataframes
    \/ "dataframes" \in called /\ CalculateKpis
    \/ "dataframes" \in called /\ CreateContributorLeaderboard

SpecConserve == InitConserve /\ [][NextConserve]_vars

RECURSIVE SumOf(_, _)
\* The sum of a column of counts.
SumOf(rows, field) ==
    IF rows = <<>> THEN 0 ELSE Head(rows)[field] + SumOf(Tail(rows), field)

\* C30: over the leaderboard of a pair of normalized tables, items without
\* user included, the Issues sum to the number of issues, the PRs to the
\* number of PRs and the Totals to total_issues + total_prs of the KPI set.
C30_LeaderboardConservation ==
    {"dataframes", "kpis", "leaderboard"} \subseteq called \ raised =>
        /\ SumOf(leaderboard_df, "Issues") = Len(issues_df)
        /\ SumOf(leaderboard_df, "PRs") = Len(prs_df)
        /\ SumOf(leaderboard_df, "Total") = kpis.total_issues + kpis.total_prs

-----------------------------------------------------------------------------
(* github_api.py: fetch_issues_and_prs over the list that                  *)
(* repo.get_issues(state='all', since=start_date) yields.  `since` selects *)
(* on the time of the last update, so the list holds items created at any  *)
(* time; a repository numbers its issues and pull requests apart.          *)

\* item.pull_request of an item that is a pull request (None otherwise).
PullRequestPart == [kind |-> "PullRequestPart", text |-> <<>>]

\* An item of the list, open and unlabelled.
Item(number, created_at, pull_request) ==
    [number |-> number, title |-> "Item", state |-> "open",
     created_at |-> created_at, closed_at |-> NaT, user |-> "alice",
     labels |-> <<>>, pull_request |-> pull_request]

\* A creation test with no upper end.
CreatedSince(item, start, end) == start <= item.created_at

\* start_date <= item.created_at <= end_date
CreatedInWindow(item, start, end) ==
    start <= item.created_at /\ item.created_at <= end

\* repo.get_pull(number): the pull request that has the number; its body is
\* None.
get_pull(items, number) ==
    LET item == CHOOSE x \in {items[i] : i \in 1..Len(items)} : x.number = number
    IN  [number |-> number, title |-> item.title, state |-> item.state,
         created_at |-> item.created_at, closed_at |-> item.closed_at,
         merged_at |-> NaT, merged |-> FALSE, user |-> item.user,
         labels |-> item.labels, body |-> None]

\* The lists issues, pull_requests that the loop over all_items builds.
fetch_issues_and_prs(items, start, end) ==
    LET kept  == SelectSeq(items, LAMBDA item : CreatedInWindow(item, start, end))
        pulls == SelectSeq(kept, LAMBDA item : item.pull_request # None)
    IN  <<SelectSeq(kept, LAMBDA item : item.pull_request = None),
          [k \in 1..Len(pulls) |-> get_pull(items, pulls[k].number)]>>

\* get_issue_data(issue) and get_pr_data(pr), the latter with pr.body or ''.
get_issue_data(issue) ==
    IssueData(issue.number, issue.title, issue.state, issue.created_at,
              issue.closed_at, issue.user, issue.labels)

get_pr_data(pr) ==
    PrData(pr.number, pr.title, pr.state, pr.created_at, pr.closed_at,
           pr.merged_at, pr.merged, pr.user, pr.labels,
           IF pr.body = None THEN <<>> ELSE pr.body.text)

\* The inputs and results of the dashboard steps.
steps == <<inputs, called, raised, out_columns, kpis, kpi_cards,
           throughput_df, throughput_period, cycle_time_df,
           cycle_time_period, timeline_df, leaderboard_df, labels_df,
           linkage_df, aging_df>>

\* One call of fetch_issues_and_prs on the list of the platform.
FetchIssuesAndPrs ==
    /\ fetch_calls = 0
    /\ fetch_calls' = 1
    /\ fetched' = fetch_issues_and_prs(all_items, start_date, end_date)
    /\ UNCHANGED <<steps, analyzer, cache_key, github_token, repository_input,
                   start_day, end_day, fetch_button, all_items, outcome>>

-----------------------------------------------------------------------------
(* Specification of the fetch: lists of items created before, at the ends  *)
(* of, inside and after the window of 2024-01-02 .. 2024-01-03.            *)

FetchTimes ==
    {DayStart(1) - 1, DayStart(1), DayStart(1) + 3600, DayEnd(2), DayEnd(2) + 1}

\* The lists of at most n items, numbered from the newest down.
ItemListsUpTo(Shapes, n) ==
    {[i \in DOMAIN x |-> Item(Len(x) - i + 1, x[i][1], x[i][2])] :
        x \in SeqUpTo(Shapes, n)}

InitFetch ==
    /\ all_items \in ItemListsUpTo(FetchTimes \X {None, PullRequestPart}, MaxRows)
    /\ analyzer = [owner |-> <<"a">>, repo |-> <<"b">>]
    /\ cache_key = <<>>
    /\ github_token = "ghp_token"
    /\ repository_input = <<"a", "/", "b">>
    /\ start_day = 1
    /\ end_day = 2
    /\ fetch_button = TRUE
    /\ fetched = <<>>
    /\ fetch_calls = 0
    /\ outcome = ""
    /\ issues_data = <<>>
    /\ prs_data = <<>>
    /\ issues_df = <<>>
    /\ prs_df = <<>>
    /\ start_date = DayStart(start_day)
    /\ end_date = DayEnd(end_day)
    /\ current_date = DayEnd(end_day)
    /\ NoCalls

NextFetch == FetchIssuesAndPrs

SpecFetch == InitFetch /\ [][NextFetch]_vars

\* The numbers of a list of items.
Numbers(list) == {list[i].number : i \in 1..Len(list)}

\* The item of the platform list that has the number.
PlatformItem(number) ==
    CHOOSE x \in {all_items[i] : i \in 1..Len(all_items)} : x.number = number

\* C25: every item the fetch returns was created in [start, end], ends
\* included; it is in the pull-request list exactly when the platform marks
\* it as a pull request, in the issue list otherwise; no number is in both
\* lists or twice in one.
C25_PartitionsAndFilters ==
    fetch_calls = 1 =>
        /\ \A k \in 1..2 : \A i \in 1..Len(fetched[k]) :
              /\ fetched[k][i].number \in Numbers(all_items)
              /\ start_date <= fetched[k][i].created_at
              /\ fetched[k][i].created_at <= end_date
              /\ (k = 2) <=>
                    (PlatformItem(fetched[k][i].number).pull_request # None)
        /\ Numbers(fetched[1]) \cap Numbers(fetched[2]) = {}
        /\ \A k \in 1..2 : Cardinality(Numbers(fetched[k])) = Len(fetched[k])

\* An item created one second after the end is left out, an issue created
\* at the last second and a pull request created at the first are returned.
C25_Witness ==
    /\ fetch_calls = 1
    /\ \E i \in 1..Len(all_items) : all_items[i].created_at = DayEnd(2) + 1
    /\ Len(fetched[1]) = 1 /\ fetched[1][1].created_at = DayEnd(2)
    /\ Len(fetched[2]) = 1 /\ fetched[2][1].created_at = DayStart(1)

-----------------------------------------------------------------------------
(* Inputs of the reruns: a configuration without token and without '/' in  *)
(* the repository, two repositories, a repository without owner; dates a   *)
(* day apart, over a year apart, equal and reversed; an issue and a pull   *)
(* request created inside both valid ranges, an issue inside the long one. *)

\* Largest number of items the platform yields to one fetch.
MaxFetched == 2

AppConfigs ==
    {<<"", <<"a", "b">>>>, <<"ghp_token", <<"a", "/", "b">>>>,
     <<"ghp_token", <<"a", "/", "c">>>>, <<"ghp_token", <<"/", "b">>>>}

DateInputs == {<<0, 1>>, <<0, 400>>, <<1, 1>>, <<1, 0>>}

AppItems ==
    {<<DayStart(1) + 3600, None>>, <<DayStart(1) + 3600, PullRequestPart>>,
     <<DayStart(5), None>>}

-----------------------------------------------------------------------------
(* app.py: one rerun of main.  The sidebar dates are day numbers, the      *)
(* repository string is the sequence of its characters.                    *)

\* A local of main that the run has not assigned.
Unbound == 0 - 2

\* A date guard that stops only a start after the end.
StartAfterEnd(start, end) == start > end

\* Lines 287-298: the run returns when start_date > end_date, and when the
\* span is not over 365 days and under 1 day.
DateRangeRejected(start, end) ==
    \/ start > end
    \/ ~(end - start > 365) /\ end - start < 1

\* Lines 337-355: no token, no '/' in the repository, or an empty owner or
\* repository name around the first '/'.
ConfigRejected(token, repository) ==
    \/ token = ""
    \/ repository = <<>>
    \/ \A i \in 1..Len(repository) : repository[i] # "/"
    \/ LET k == CHOOSE i \in 1..Len(repository) :
                    /\ repository[i] = "/"
                    /\ \A j \in 1..(i - 1) : repository[j] # "/"
       IN  k = 1 \/ k = Len(repository)

\* owner, repo = repository_input.split('/', 1), as the analyzer keeps them.
GitHubRepositoryAnalyzer(repository) ==
    LET k == CHOOSE i \in 1..Len(repository) :
                 /\ repository[i] = "/"
                 /\ \A j \in 1..(i - 1) : repository[j] # "/"
    IN  [owner |-> SubSeq(repository, 1, k - 1),
         repo |-> SubSeq(repository, k + 1, Len(repository))]

\* The names the module binds, and the names the body of main binds before
\* line 533 on some path; a name bound only inside a nested function (as
\* processor is, lines 425 and 430) is in neither.
ModuleNames ==
    {"os", "st", "datetime", "timedelta", "pd", "GitHubRepositoryAnalyzer",
     "DataProcessor", "Visualizations", "CACHE_TTL", "main"}

MainNames ==
    {"github_token", "repository_input", "owner", "repo", "start_date",
     "end_date", "date_range_days", "fetch_button", "cache_key", "analyzer",
     "start_datetime", "end_datetime", "issues", "prs", "issues_data",
     "prs_data", "issues_df", "prs_df", "kpis", "kpi_data"}

\* A nested function of main reads a name that neither main nor the module
\* binds.
NameError(name) == name \notin ModuleNames \cup MainNames

\* The stored list, had the fetched records been added to it.
MergedWithStored(stored, records) == stored \o records

\* st.session_state.issues_data = issues_data
Assigned(stored, records) == records

\* No chart data, no linkage.
NoCharts ==
    /\ throughput_df' = <<>>
    /\ throughput_period' = ""
    /\ cycle_time_df' = <<>>
    /\ cycle_time_period' = ""
    /\ timeline_df' = <<>>
    /\ leaderboard_df' = <<>>
    /\ labels_df' = <<>>
    /\ linkage_df' = <<>>
    /\ aging_df' = <<>>

\* The run returns before the tables are made: at the date guard, at the
\* welcome screen, at the configuration checks or in the except branch.
Returns(where) ==
    /\ outcome' = where
    /\ issues_df' = <<>>
    /\ prs_df' = <<>>
    /\ kpis' = <<>>
    /\ kpi_cards' = <<>>
    /\ called' = {}
    /\ raised' = {}
    /\ out_columns' = <<>>
    /\ NoCharts

\* Lines 423-625 on the stored lists: the tables, the KPI set and its cards,
\* then the getters of the chart data, the linkage and the detail tables.
Renders ==
    /\ issues_df' = create_dataframes(issues_data', prs_data')[1]
    /\ prs_df' = create_dataframes(issues_data', prs_data')[2]
    /\ kpis' = calculate_kpis(issues_df', prs_df')
    /\ kpi_cards' = [issue |-> AvgCard(kpis'.avg_issue_resolution_days),
                     pr    |-> AvgCard(kpis'.avg_pr_merge_days)]
    /\ raised' = {}
    /\ out_columns' = ("kpis" :> DOMAIN kpis')
    /\ IF NameError("processor")
       THEN /\ called' = {"dataframes", "kpis", "cards"}
            /\ NoCharts
            /\ outcome' = "NameError"
       ELSE /\ labels_df' = extract_labels_frequency(issues_df', prs_df')
            /\ leaderboard_df' = create_contributor_leaderboard(issues_df', prs_df')
            /\ timeline_df' = create_timeline_data(issues_df', prs_df')
            /\ IF start_date' = Unbound
               THEN /\ called' = {"dataframes", "kpis", "cards", "labels",
                                  "leaderboard", "timeline"}
                    /\ throughput_df' = <<>>
                    /\ throughput_period' = ""
                    /\ cycle_time_df' = <<>>
                    /\ cycle_time_period' = ""
                    /\ linkage_df' = <<>>
                    /\ aging_df' = <<>>
                    /\ outcome' = "UnboundLocalError"
               ELSE /\ called' = {"dataframes", "kpis", "cards", "labels",
                                  "leaderboard", "timeline", "throughput",
                                  "cycle_time", "aging", "linkage"}
                    /\ throughput_df' = create_throughput_data(issues_df', prs_df', start_date', end_date')
                    /\ throughput_period' = ThroughputPeriod(start_date', end_date')
                    /\ cycle_time_df' = create_cycle_time_data(prs_df', start_date', end_date')
                    /\ cycle_time_period' = CyclePeriod(start_date', end_date')
                    /\ aging_df' = create_issue_aging_data(issues_df', current_date)
                    /\ linkage_df' \in extract_pr_issue_linkage(prs_df')
                    /\ outcome' = "completed"

\* One run of main: the configuration and the sidebar as the user left them,
\* the button pressed or not; where a fetch is made, the constructor or the
\* fetch raises or the platform yields a list.
Rerun ==
    \E config \in AppConfigs, dates \in DateInputs, button \in BOOLEAN :
        /\ github_token' = config[1]
        /\ repository_input' = config[2]
        /\ start_day' = dates[1]
        /\ end_day' = dates[2]
        /\ fetch_button' = button
        /\ UNCHANGED current_date
        /\ IF DateRangeRejected(dates[1], dates[2])
           THEN /\ Returns("date error")
                /\ fetch_calls' = 0 /\ all_items' = <<>> /\ fetched' = <<>>
                /\ start_date' = Unbound /\ end_date' = Unbound
                /\ UNCHANGED <<analyzer, issues_data, prs_data, cache_key>>
           ELSE IF ~(button \/ (analyzer # None /\ issues_data # <<>>))
           THEN /\ Returns("welcome")
                /\ fetch_calls' = 0 /\ all_items' = <<>> /\ fetched' = <<>>
                /\ start_date' = Unbound /\ end_date' = Unbound
                /\ UNCHANGED <<analyzer, issues_data, prs_data, cache_key>>
           ELSE IF ConfigRejected(config[1], config[2])
           THEN /\ Returns("configuration error")
                /\ fetch_calls' = 0 /\ all_items' = <<>> /\ fetched' = <<>>
                /\ start_date' = Unbound /\ end_date' = Unbound
                /\ UNCHANGED <<analyzer, issues_data, prs_data, cache_key>>
           ELSE IF /\ analyzer # None
                   /\ issues_data # <<>>
                   /\ cache_key = <<config[2], dates[1], dates[2]>>
           THEN /\ fetch_calls' = 0 /\ all_items' = <<>> /\ fetched' = <<>>
                /\ start_date' = Unbound /\ end_date' = Unbound
                /\ UNCHANGED <<analyzer, issues_data, prs_data, cache_key>>
                /\ Renders
           ELSE \/ /\ Returns("fetch error")
                   /\ fetch_calls' = 0 /\ all_items' = <<>> /\ fetched' = <<>>
                   /\ start_date' = Unbound /\ end_date' = Unbound
                   /\ UNCHANGED <<analyzer, issues_data, prs_data, cache_key>>
                \/ /\ Returns("fetch error")
                   /\ analyzer' = GitHubRepositoryAnalyzer(config[2])
                   /\ start_date' = DayStart(dates[1])
                   /\ end_date' = DayEnd(dates[2])
                   /\ fetch_calls' = 1 /\ all_items' = <<>> /\ fetched' = <<>>
                   /\ UNCHANGED <<issues_data, prs_data, cache_key>>
                \/ \E items \in ItemListsUpTo(AppItems, MaxFetched) :
                      /\ analyzer' = GitHubRepositoryAnalyzer(config[2])
                      /\ start_date' = DayStart(dates[1])
                      /\ end_date' = DayEnd(dates[2])
                      /\ fetch_calls' = 1
                      /\ all_items' = items
                      /\ fetched' = fetch_issues_and_prs(items, start_date', end_date')
                      /\ issues_data' = Assigned(issues_data,
                            [i \in 1..Len(fetched'[1]) |-> get_issue_data(fetched'[1][i])])
                      /\ prs_data' = Assigned(prs_data,
                            [i \in 1..Len(fetched'[2]) |-> get_pr_data(fetched'[2][i])])
                      /\ cache_key' = <<config[2], dates[1], dates[2]>>
                      /\ Renders

InitApp ==
    /\ NoAggregate
    /\ issues_data = <<>>
    /\ prs_data = <<>>
    /\ issues_df = <<>>
    /\ prs_df = <<>>
    /\ start_date = Unbound
    /\ end_date = Unbound
    /\ current_date = DayEnd(400)

NextApp == Rerun

SpecApp == InitApp /\ [][NextApp]_vars

-----------------------------------------------------------------------------
(* Claims on the reruns of main.                                           *)

\* The run made the tables and the KPI set: the dashboard is on screen.
Rendered == "kpis" \in called

\* The cache key of the repository and dates the last run read.
RequestedKey == <<repository_input, start_day, end_day>>

\* C21: a fetch is made and the dashboard rendered only for sidebar dates
\* with start <= end and at least one day apart; with start after end or
\* equal to it the run stops with an error, before any fetch or aggregate.
C21_DateRangeGuard ==
    /\ (fetch_calls > 0 \/ Rendered) =>
          (start_day <= end_day /\ end_day - start_day >= 1)
    /\ (outcome # "" /\ start_day >= end_day) =>
          (outcome = "date error" /\ fetch_calls = 0 /\ called = {})

\* Data of an earlier fetch is stored, the button is pressed with equal
\* dates: the run stops at the date guard.
C21_Witness ==
    /\ outcome = "date error"
    /\ start_day = end_day
    /\ fetch_button
    /\ ~ConfigRejected(github_token, repository_input)
    /\ analyzer # None
    /\ issues_data # <<>>

\* C24: a run either stores exactly the records its own fetch returned,
\* under the key of its repository and dates, or leaves the stored lists and
\* the stored key as they were; a run whose fetch raises leaves them.
C24_SessionDataReplaced ==
    [][IF fetched' # <<>>
       THEN /\ issues_data' = [i \in 1..Len(fetched'[1]) |->
                                  get_issue_data(fetched'[1][i])]
            /\ prs_data' = [i \in 1..Len(fetched'[2]) |->
                               get_pr_data(fetched'[2][i])]
            /\ cache_key' = <<repository_input', start_day', end_day'>>
       ELSE UNCHANGED <<issues_data, prs_data, cache_key>>]_vars

\* Lists are stored under another key, then a fetch for other dates raises:
\* the lists and the key are still those of the earlier fetch.
C24_Witness ==
    /\ outcome = "fetch error"
    /\ fetch_calls = 1
    /\ cache_key # <<>>
    /\ cache_key # RequestedKey
    /\ issues_data # <<>>
    /\ prs_data # <<>>

\* C27: when the stored key is that of the repository and dates a run
\* reads, with the configuration valid, the run renders the dashboard from
\* the stored lists and makes no fetch, whatever the lists hold.
C27_CacheReuse ==
    [][(/\ cache_key # <<>>
        /\ cache_key = <<repository_input', start_day', end_day'>>
        /\ ~ConfigRejected(github_token', repository_input'))
       => (/\ fetch_calls' = 0
           /\ "kpis" \in called'
           /\ UNCHANGED <<issues_data, prs_data, cache_key>>)]_vars

\* C28: in every run that renders the dashboard, after a fetch or from the
\* stored lists, the start and end datetimes handed to the throughput and
\* cycle-time aggregates are bound, to the first instant of the start date
\* and the last instant of the end date.
C28_WindowArguments ==
    Rendered =>
        /\ start_date = DayStart(start_day)
        /\ end_date = DayEnd(end_day)

\* C29: a run with a valid configuration and valid dates whose fetch
\* returned goes on to the end: all chart data and the linkage are computed
\* and the detail tables reached.
C29_RunsToCompletion ==
    fetched # <<>> =>
        /\ outcome = "completed"
        /\ {"labels", "leaderboard", "timeline", "throughput", "cycle_time",
            "aging", "linkage"} \subseteq called

=============================================================================
